---- MODULE Spec2Model ----
(***************************************************************************)
(* BriefBot: the asynchronous brief-generation job pipeline.               *)
(*   server/routes.ts          processJob, POST /api/generate-brief        *)
(*   server/openai-client.ts   callOpenAIWithRetry, generateBriefWithAI    *)
(*   server/storage.ts         DatabaseStorage (jobs, meetings, briefs...) *)
(*   shared schema             briefJobs table, meetingMetadataSchema      *)
(* Every `await` of the source is a step boundary; the code between two    *)
(* awaits runs atomically (single-threaded event loop).                    *)
(***************************************************************************)
EXTENDS Integers, Sequences, FiniteSets, TLC

\* ---- bounds of the model ----
MaxSubmissions == 1   \* requests to POST /api/generate-brief
MaxReinvoke == 1      \* processJob invocations beyond the endpoint's own trigger
MaxFiles == 2         \* files attached to one request
MaxBullets == 4       \* context bullets in one answer of the generation service
MaxCalRequests == 1   \* requests to POST /api/calendar/generate-brief
MaxCalRepeats == 1    \* further requests to it for an event already requested
MaxDelayTracked == 60000   \* milliseconds up to which a growing delay is followed
MaxRows == 2          \* records of a CSV file, rows of a sheet
MaxCols == 2          \* cells of a row
MaxSheets == 2        \* sheets of a workbook
MaxResubmissions == 1 \* further requests to POST /api/generate-brief from the home page
MaxInFlight == 2      \* status requests of the home page in flight for one job
MaxTokenCalls == 2    \* calls of getAccessToken under way at once
MaxClock == 3         \* the last instant of the clock of google-calendar.ts

\* ---- program constants ----
MAX_RETRIES == 3
INITIAL_DELAY_MS == 1000

NullId == 0           \* SQL NULL in an integer column (ids are serial, from 1)
NullText == <<>>      \* SQL NULL in a text column

Reqs == 1..MaxSubmissions
\* the handlers of POST /api/generate-brief there can be: those of Reqs and
\* those of the home page's further submissions
ReqSlots == 1..(MaxSubmissions + MaxResubmissions)
\* invocation p <= MaxSubmissions is the one request p triggers; the next
\* MaxReinvoke are further calls of processJob(jobId) with an arbitrary jobId
\* (or, where no such call is made, the ones calendar requests trigger)
Procs == 1..(MaxSubmissions + MaxReinvoke + MaxCalRepeats)
Reinvokers == (MaxSubmissions + 1)..(MaxSubmissions + MaxReinvoke)
JobIds == 1..(MaxSubmissions + 1)

VARIABLES
  jobs,        \* brief_jobs table: row id -> row
  meetings,    \* meetings table
  briefs,      \* briefs table
  documents,   \* documents table
  analytics,   \* decision_analytics table
  req,         \* POST /api/generate-brief handlers
  inv,         \* processJob invocations
  gen,         \* one call of generateBriefWithAI, seen from its inputs to the row stored
  calendarEvents,  \* calendar_events table
  cal,         \* POST /api/calendar/generate-brief handlers
  query,       \* a GET /api/jobs/:id handler
  poller,      \* the calendar page's pollForCompletion
  home,        \* the home page: its state, its localStorage entries, its polls
  parse,       \* one call of parseDocument on a CSV file or a workbook
  filter,      \* one uploaded file: multer's fileFilter, then parseDocument's dispatch
  token        \* google-calendar.ts: connectionSettings, the clock, getAccessToken calls

vars ==
  <<jobs, meetings, briefs, documents, analytics, req, inv, gen, calendarEvents,
    cal, query, poller, home, parse, filter, token>>

\* ------------------------------------------------------------------------
\* Error messages: a message is a sequence of fragments, concatenation is \o
\* ------------------------------------------------------------------------
Fragments(text) ==
  CASE text = "authentication" -> {"authentication"}
    [] text = "OpenAI authentication failed" -> {"authentication"}
    [] text = "Invalid API key" -> {"Invalid API key"}
    [] OTHER -> {}

\* String.prototype.includes on a message
Includes(msg, sub) == \E i \in DOMAIN msg : sub \in Fragments(msg[i])

\* Failures of the generation service (openai.chat.completions.create rejects).
\* auth: the service refused the credential; msg: the text of the error.
ServiceErrors ==
  { [auth |-> FALSE, msg |-> <<"Connection timeout">>],
    [auth |-> TRUE,  msg |-> <<"Invalid API key">>],
    [auth |-> TRUE,  msg |-> <<"authentication">>],
    [auth |-> TRUE,  msg |-> <<"401 Incorrect API key provided">>] }

\* What one call of the service can produce: a rejection, or a response whose
\* message content is empty, not JSON, JSON of the wrong shape, or a valid brief.
Contents == {"empty", "nonjson", "badshape", "valid"}

StoreError == <<"store unavailable">>

\* ------------------------------------------------------------------------
\* Job store (DatabaseStorage over the brief_jobs table)
\* ------------------------------------------------------------------------
\* NewJobValues with the progress of the first processing step
NewJobValues_Started(metadata, documentContents, documentFiles) ==
  [ status |-> "pending",
    metadata |-> metadata,
    documentContents |-> documentContents,
    documentFiles |-> documentFiles,
    progress |-> 10 ]

\* the object POST /api/generate-brief passes to createJob
NewJobValues(metadata, documentContents, documentFiles) ==
  [ status |-> "pending",
    metadata |-> metadata,
    documentContents |-> documentContents,
    documentFiles |-> documentFiles,
    progress |-> 0 ]

\* insert into brief_jobs: the columns not given take their defaults
InsertedJob(values) ==
  [ status |-> values.status,
    metadata |-> values.metadata,
    documentContents |-> values.documentContents,
    documentFiles |-> values.documentFiles,
    resultBriefId |-> NullId,
    error |-> NullText,
    progress |-> values.progress ]

\* getJob's `undefined`
NoMetadata ==
  [ title |-> 0, attendees |-> "", meetingType |-> "", audienceLevel |-> "" ]

NoJob ==
  [ status |-> "undefined", metadata |-> NoMetadata, documentContents |-> <<>>,
    documentFiles |-> <<>>, resultBriefId |-> NullId, error |-> NullText,
    progress |-> 0 ]

getJob(id) == IF id \in DOMAIN jobs THEN jobs[id] ELSE NoJob

\* updateJob without the `where`: every row takes the data
updateJob_EveryRow(id, data) ==
  [ j \in DOMAIN jobs |->
      [ col \in DOMAIN jobs[j] |->
          IF col \in DOMAIN data THEN data[col] ELSE jobs[j][col] ] ]

\* update brief_jobs set <data> where id = <id>: only the given columns
\* change, and no row is touched when the id does not exist
updateJob(id, data) ==
  [ j \in DOMAIN jobs |->
      IF j = id
        THEN [ col \in DOMAIN jobs[j] |->
                 IF col \in DOMAIN data THEN data[col] ELSE jobs[j][col] ]
        ELSE jobs[j] ]

\* ------------------------------------------------------------------------
\* POST /api/generate-brief
\* ------------------------------------------------------------------------
MetadataKinds == {"missing", "unparseable", "invalid", "valid"}
AudienceLevels == {"exec", "ic"}

MeetingMetadata(s, audienceLevel) ==
  [ title |-> s, attendees |-> "A, B", meetingType |-> "review",
    audienceLevel |-> audienceLevel ]

IdleReq ==
  [ pc |-> "idle", files |-> 0, metadataKind |-> "missing", parsed |-> {},
    metadata |-> NoMetadata, documentContents |-> <<>>, status |-> 0,
    error |-> NullText, jobId |-> NullId, job |-> NoJob, cleaned |-> 0,
    triggered |-> FALSE, events |-> <<>> ]

\* what the latest call of the service did: kind is "rejected" or the kind of
\* content answered
Outcome(kind, auth, msg) == [ kind |-> kind, auth |-> auth, msg |-> msg ]
NoOutcome == Outcome("none", FALSE, NullText)

IdleInv ==
  [ pc |-> "idle", jobId |-> NullId, job |-> NoJob, attempt |-> 0,
    genLog |-> <<>>, lastOut |-> NoOutcome, lastError |-> NullText, caught |-> NullText,
    meeting |-> NullId, savedBrief |-> NullId, docIdx |-> 0,
    result |-> "none" ]

\* the filenames of the files that parsed, in upload order
RECURSIVE ParsedInOrder(_, _, _)
ParsedInOrder(i, n, ok) ==
  IF i > n THEN <<>>
  ELSE (IF i \in ok THEN <<i>> ELSE <<>>) \o ParsedInOrder(i + 1, n, ok)

\* Rejection without the check that at least one document parsed
Rejection_NoParsedCheck(files, metadataKind, documentContents) ==
  IF files = 0 THEN <<"No files uploaded">>
  ELSE IF metadataKind = "missing" THEN <<"Meeting metadata is required">>
  ELSE IF metadataKind = "unparseable" THEN <<"Invalid metadata format">>
  ELSE IF metadataKind = "invalid" THEN <<"Invalid meeting metadata">>
  ELSE NullText

\* the checks before job creation: the text of the 400 response, or NullText
Rejection(files, metadataKind, documentContents) ==
  IF files = 0 THEN <<"No files uploaded">>
  ELSE IF metadataKind = "missing" THEN <<"Meeting metadata is required">>
  ELSE IF metadataKind = "unparseable" THEN <<"Invalid metadata format">>
  ELSE IF metadataKind = "invalid" THEN <<"Invalid meeting metadata">>
  ELSE IF Len(documentContents) = 0 THEN <<"Failed to parse any documents">>
  ELSE NullText

\* UploadedFiles when the array is never filled
UploadedFiles_Unfilled(files) == 0

\* uploadedFiles at the `finally`: filled only after the zero-files check
UploadedFiles(files) == IF files = 0 THEN 0 ELSE files

\* The handler up to its first store call: validation and extraction. A
\* rejected request answers 400 and runs the finally block.
Receive(s, files, metadataKind, ok, audienceLevel) ==
  /\ req[s].pc = "idle"
  /\ LET docs == IF files > 0 /\ metadataKind = "valid"
                   THEN ParsedInOrder(1, files, ok) ELSE <<>>
         why == Rejection(files, metadataKind, docs)
         seen == [ req[s] EXCEPT !.files = files, !.metadataKind = metadataKind,
                     !.parsed = IF files > 0 /\ metadataKind = "valid" THEN ok ELSE {},
                     !.documentContents = docs ]
     IN  req' = [ req EXCEPT ![s] =
           IF why # NullText
             THEN [ seen EXCEPT !.pc = "done", !.status = 400, !.error = why,
                      !.cleaned = UploadedFiles(files) ]
             ELSE [ seen EXCEPT !.pc = "createJob",
                      !.metadata = MeetingMetadata(s, audienceLevel) ] ]
  /\ UNCHANGED <<jobs, meetings, briefs, documents, analytics, inv, gen, calendarEvents, cal, query, poller, home, parse,
                 filter, token>>

\* StepsFromCreateJob with processJob called before the response
StepsFromCreateJob_TriggerFirst == <<"createJob", "processJob", "respond", "cleanup">>

\* the statements of the handler from createJob on, in the order they run when
\* createJob resolves: await createJob, res.json, processJob(job.id), finally
StepsFromCreateJob == <<"createJob", "respond", "processJob", "cleanup">>

\* createJob resolves: the response carries the job id, processJob(job.id) is
\* called (it runs up to its first await) and the finally block cleans up
CreateJobOk(s) ==
  /\ req[s].pc = "createJob"
  /\ LET row == InsertedJob(NewJobValues(req[s].metadata, req[s].documentContents,
                                         req[s].documentContents))
         id == Len(jobs) + 1
     IN  /\ jobs' = Append(jobs, row)
         /\ req' = [ req EXCEPT ![s] =
              [ @ EXCEPT !.pc = "done", !.status = 200, !.jobId = id, !.job = row,
                  !.triggered = TRUE, !.cleaned = UploadedFiles(req[s].files),
                  !.events = StepsFromCreateJob ] ]
         /\ inv' = [ inv EXCEPT ![s] = [ IdleInv EXCEPT !.pc = "getJob", !.jobId = id ] ]
  /\ UNCHANGED <<meetings, briefs, documents, analytics, gen, calendarEvents, cal, query, poller, home, parse,
                 filter, token>>

\* createJob throws: the handler's catch answers 500, then the finally block
CreateJobThrows(s) ==
  /\ req[s].pc = "createJob"
  /\ req' = [ req EXCEPT ![s] =
       [ @ EXCEPT !.pc = "done", !.status = 500, !.error = StoreError,
           !.cleaned = UploadedFiles(req[s].files) ] ]
  /\ UNCHANGED <<jobs, meetings, briefs, documents, analytics, inv, gen, calendarEvents, cal, query, poller, home, parse,
                 filter, token>>

\* ------------------------------------------------------------------------
\* callOpenAIWithRetry and generateBriefWithAI
\* ------------------------------------------------------------------------
RECURSIVE Pow2(_)
Pow2(n) == IF n = 0 THEN 1 ELSE 2 * Pow2(n - 1)

\* BackoffDelay with the exponent off by one
BackoffDelay_OffByOne(attempt) == INITIAL_DELAY_MS * Pow2(attempt)

\* the sleep after failed attempt `attempt`
BackoffDelay(attempt) == INITIAL_DELAY_MS * Pow2(attempt - 1)

\* the test of the catch block that stops the retries
IsAuthFailure(msg) ==
  Includes(msg, "Invalid API key") \/ Includes(msg, "authentication")

\* `attempt < retries`: another attempt follows
RetriesLeft(attempt, retries) == attempt < retries

AuthFailedMsg(msg) == <<"OpenAI authentication failed">> \o msg
ExhaustedMsg(retries, msg) ==
  <<"OpenAI API failed after", ToString(retries), "attempts">> \o msg
NoContentMsg == <<"No content in OpenAI response">>
InvalidJSONMsg == <<"Invalid JSON response from AI">>
InvalidStructureMsg == <<"AI response missing required fields">>

\* generateBriefWithAI's catch: every failure is rethrown under one prefix
GenerationFailed(msg) == <<"Failed to generate brief">> \o msg

\* what the invocation has asked of the service and of the timer so far
CallEntry(attempt) == [ op |-> "call", attempt |-> attempt, ms |-> 0 ]
SleepEntry(attempt, ms) == [ op |-> "sleep", attempt |-> attempt, ms |-> ms ]

\* Throw that notes the error and lets the try block go on
Throw_GoesOn(p, msg) == [ inv[p] EXCEPT !.caught = msg ]

\* processJob's `catch (error)` is entered with `msg`
Throw(p, msg) == [ inv[p] EXCEPT !.pc = "catch", !.caught = msg ]

\* callOpenAIWithRetry is left (return or throw): its locals are gone
LeaveRetry(r) == [ r EXCEPT !.attempt = 0, !.lastError = NullText ]

\* the catch block of callOpenAIWithRetry after attempt inv[p].attempt failed
\* with `msg`; `out` is what the service did
AttemptFailed(p, out, msg) ==
  LET a == inv[p].attempt
      logged == [ inv[p] EXCEPT !.genLog = Append(@, CallEntry(a)),
                                !.lastOut = out, !.lastError = msg ]
  IN  IF IsAuthFailure(msg)
        THEN LeaveRetry([ logged EXCEPT !.pc = "catch",
                            !.caught = GenerationFailed(AuthFailedMsg(msg)) ])
      ELSE IF RetriesLeft(a, MAX_RETRIES)
        THEN [ logged EXCEPT !.pc = "sleep" ]
      ELSE LeaveRetry([ logged EXCEPT !.pc = "catch",
                          !.caught = GenerationFailed(ExhaustedMsg(MAX_RETRIES, msg)) ])

\* one attempt: openai.chat.completions.create rejects
CallRejected(p, e) ==
  /\ inv[p].pc = "callOpenAI"
  /\ inv' = [ inv EXCEPT ![p] =
       AttemptFailed(p, Outcome("rejected", e.auth, e.msg), e.msg) ]
  /\ UNCHANGED <<jobs, meetings, briefs, documents, analytics, req, gen, calendarEvents, cal, query, poller, home, parse,
                 filter, token>>

\* NoContent that also takes content that is not JSON for no content
NoContent_OrNotJSON(content) == content \in {"empty", "nonjson"}

\* NoContent that takes every response as carrying content
NoContent_Never(content) == FALSE

\* `!content`: the response carries no message content
NoContent(content) == content = "empty"

\* one attempt: the service answers. No content is a failed attempt; any other
\* content leaves the retry loop and is parsed and validated by generateBriefWithAI
CallAnswered(p, content) ==
  /\ inv[p].pc = "callOpenAI"
  /\ LET a == inv[p].attempt
         logged == LeaveRetry([ inv[p] EXCEPT !.genLog = Append(@, CallEntry(a)),
                                              !.lastOut = Outcome(content, FALSE, NullText) ])
     IN  inv' = [ inv EXCEPT ![p] =
           CASE NoContent(content) -> AttemptFailed(p, Outcome(content, FALSE, NoContentMsg), NoContentMsg)
             [] content = "nonjson" ->
                  [ logged EXCEPT !.pc = "catch",
                      !.caught = GenerationFailed(InvalidJSONMsg) ]
             [] content = "badshape" ->
                  [ logged EXCEPT !.pc = "catch",
                      !.caught = GenerationFailed(InvalidStructureMsg) ]
             [] OTHER -> [ logged EXCEPT !.pc = "progress70" ] ]
  /\ UNCHANGED <<jobs, meetings, briefs, documents, analytics, req, gen, calendarEvents, cal, query, poller, home, parse,
                 filter, token>>

\* await sleep(delay), then the next iteration of the loop
Sleep(p) ==
  /\ inv[p].pc = "sleep"
  /\ inv' = [ inv EXCEPT ![p] =
       [ @ EXCEPT !.pc = "callOpenAI", !.attempt = @ + 1,
           !.genLog = Append(@, SleepEntry(inv[p].attempt,
                                           BackoffDelay(inv[p].attempt))) ] ]
  /\ UNCHANGED <<jobs, meetings, briefs, documents, analytics, req, gen, calendarEvents, cal, query, poller, home, parse,
                 filter, token>>

\* ------------------------------------------------------------------------
\* processJob(jobId)
\* ------------------------------------------------------------------------
\* a call of processJob that no request of this model triggers (the function
\* takes any job id): it runs up to its first await, the getJob query
Invoke(p, jobId) ==
  /\ p \in Reinvokers
  /\ inv[p].pc = "idle"
  /\ inv' = [ inv EXCEPT ![p] = [ @ EXCEPT !.pc = "getJob", !.jobId = jobId ] ]
  /\ UNCHANGED <<jobs, meetings, briefs, documents, analytics, req, gen, calendarEvents, cal, query, poller, home, parse,
                 filter, token>>

\* the guard: only a job that exists and is pending is processed
Guard(job) == job.status # "undefined" /\ job.status = "pending"

\* getJob resolves; the guard returns, or the first update is issued
GetJob(p) ==
  /\ inv[p].pc = "getJob"
  /\ LET job == getJob(inv[p].jobId)
     IN  inv' = [ inv EXCEPT ![p] =
           IF Guard(job)
             THEN [ @ EXCEPT !.pc = "markProcessing", !.job = job ]
             ELSE [ @ EXCEPT !.pc = "done", !.result = "returned" ] ]
  /\ UNCHANGED <<jobs, meetings, briefs, documents, analytics, req, gen, calendarEvents, cal, query, poller, home, parse,
                 filter, token>>

\* updateJob(jobId, {status: "processing", progress: 10}) resolves
MarkProcessing(p) ==
  /\ inv[p].pc = "markProcessing"
  /\ jobs' = updateJob(inv[p].jobId, [ status |-> "processing", progress |-> 10 ])
  /\ inv' = [ inv EXCEPT ![p] = [ @ EXCEPT !.pc = "progress30" ] ]
  /\ UNCHANGED <<meetings, briefs, documents, analytics, req, gen, calendarEvents, cal, query, poller, home, parse,
                 filter, token>>

\* updateJob(jobId, {progress: 30}) resolves; generateBriefWithAI starts its
\* first attempt
Progress30(p) ==
  /\ inv[p].pc = "progress30"
  /\ jobs' = updateJob(inv[p].jobId, [ progress |-> 30 ])
  /\ inv' = [ inv EXCEPT ![p] = [ @ EXCEPT !.pc = "callOpenAI", !.attempt = 1 ] ]
  /\ UNCHANGED <<meetings, briefs, documents, analytics, req, gen, calendarEvents, cal, query, poller, home, parse,
                 filter, token>>

\* updateJob(jobId, {progress: 70}) resolves
Progress70(p) ==
  /\ inv[p].pc = "progress70"
  /\ jobs' = updateJob(inv[p].jobId, [ progress |-> 70 ])
  /\ inv' = [ inv EXCEPT ![p] = [ @ EXCEPT !.pc = "createMeeting" ] ]
  /\ UNCHANGED <<meetings, briefs, documents, analytics, req, gen, calendarEvents, cal, query, poller, home, parse,
                 filter, token>>

\* createMeeting resolves with the new row
CreateMeeting(p) ==
  /\ inv[p].pc = "createMeeting"
  /\ meetings' = Append(meetings, inv[p].job.metadata)
  /\ inv' = [ inv EXCEPT ![p] =
       [ @ EXCEPT !.pc = "createBrief", !.meeting = Len(meetings) + 1 ] ]
  /\ UNCHANGED <<jobs, briefs, documents, analytics, req, gen, calendarEvents, cal, query, poller, home, parse,
                 filter, token>>

\* createBrief resolves with the new row
CreateBrief(p) ==
  /\ inv[p].pc = "createBrief"
  /\ briefs' = Append(briefs, [ meetingId |-> inv[p].meeting ])
  /\ inv' = [ inv EXCEPT ![p] =
       [ @ EXCEPT !.pc = "progress85", !.savedBrief = Len(briefs) + 1 ] ]
  /\ UNCHANGED <<jobs, meetings, documents, analytics, req, gen, calendarEvents, cal, query, poller, home, parse,
                 filter, token>>

\* updateJob(jobId, {progress: 85}) resolves; the loop over documentFiles starts
Progress85(p) ==
  /\ inv[p].pc = "progress85"
  /\ jobs' = updateJob(inv[p].jobId, [ progress |-> 85 ])
  /\ inv' = [ inv EXCEPT ![p] =
       IF Len(inv[p].job.documentFiles) > 0
         THEN [ @ EXCEPT !.pc = "createDocument", !.docIdx = 1 ]
         ELSE [ @ EXCEPT !.pc = "createAnalytic" ] ]
  /\ UNCHANGED <<meetings, briefs, documents, analytics, req, gen, calendarEvents, cal, query, poller, home, parse,
                 filter, token>>

\* createDocument resolves for the next entry of documentFiles
CreateDocument(p) ==
  /\ inv[p].pc = "createDocument"
  /\ LET files == inv[p].job.documentFiles
         i == inv[p].docIdx
     IN  /\ documents' = Append(documents,
               [ meetingId |-> inv[p].meeting, filename |-> files[i] ])
         /\ inv' = [ inv EXCEPT ![p] =
              IF i < Len(files)
                THEN [ @ EXCEPT !.docIdx = i + 1 ]
                ELSE [ @ EXCEPT !.pc = "createAnalytic" ] ]
  /\ UNCHANGED <<jobs, meetings, briefs, analytics, req, gen, calendarEvents, cal, query, poller, home, parse,
                 filter, token>>

\* CreateAnalytic whose row does not refer to the brief
CreateAnalytic_NoBrief(p) ==
  /\ inv[p].pc = "createAnalytic"
  /\ analytics' = Append(analytics,
       [ briefId |-> NullId, meetingId |-> inv[p].meeting ])
  /\ inv' = [ inv EXCEPT ![p] = [ @ EXCEPT !.pc = "complete" ] ]
  /\ UNCHANGED <<jobs, meetings, briefs, documents, req, gen, calendarEvents, cal, query, poller, home, parse,
                 filter, token>>

\* createAnalytic resolves
CreateAnalytic(p) ==
  /\ inv[p].pc = "createAnalytic"
  /\ analytics' = Append(analytics,
       [ briefId |-> inv[p].savedBrief, meetingId |-> inv[p].meeting ])
  /\ inv' = [ inv EXCEPT ![p] = [ @ EXCEPT !.pc = "complete" ] ]
  /\ UNCHANGED <<jobs, meetings, briefs, documents, req, gen, calendarEvents, cal, query, poller, home, parse,
                 filter, token>>

\* Complete that does not store the id of the brief
Complete_WithoutBrief(p) ==
  /\ inv[p].pc = "complete"
  /\ jobs' = updateJob(inv[p].jobId, [ status |-> "completed", progress |-> 100 ])
  /\ inv' = [ inv EXCEPT ![p] = [ @ EXCEPT !.pc = "done", !.result = "returned" ] ]
  /\ UNCHANGED <<meetings, briefs, documents, analytics, req, gen, calendarEvents, cal, query, poller, home, parse,
                 filter, token>>

\* updateJob(jobId, {status: "completed", progress: 100, resultBriefId}) resolves
Complete(p) ==
  /\ inv[p].pc = "complete"
  /\ jobs' = updateJob(inv[p].jobId,
       [ status |-> "completed", progress |-> 100,
         resultBriefId |-> inv[p].savedBrief ])
  /\ inv' = [ inv EXCEPT ![p] = [ @ EXCEPT !.pc = "done", !.result = "returned" ] ]
  /\ UNCHANGED <<meetings, briefs, documents, analytics, req, gen, calendarEvents, cal, query, poller, home, parse,
                 filter, token>>

\* the awaits of the try block that go to the store
StoreSteps ==
  { "getJob", "markProcessing", "progress30", "progress70", "createMeeting",
    "createBrief", "progress85", "createDocument", "createAnalytic", "complete" }

\* the awaited store call rejects: control passes to the catch block
StoreThrows(p) ==
  /\ inv[p].pc \in StoreSteps
  /\ inv' = [ inv EXCEPT ![p] = Throw(p, StoreError) ]
  /\ UNCHANGED <<jobs, meetings, briefs, documents, analytics, req, gen, calendarEvents, cal, query, poller, home, parse,
                 filter, token>>

\* the catch block: updateJob(jobId, {status: "failed", error: message}) resolves
Catch(p) ==
  /\ inv[p].pc = "catch"
  /\ jobs' = updateJob(inv[p].jobId,
       [ status |-> "failed", error |-> inv[p].caught ])
  /\ inv' = [ inv EXCEPT ![p] = [ @ EXCEPT !.pc = "done", !.result = "returned" ] ]
  /\ UNCHANGED <<meetings, briefs, documents, analytics, req, gen, calendarEvents, cal, query, poller, home, parse,
                 filter, token>>

\* the catch block's own updateJob rejects: the promise of processJob rejects
CatchThrows(p) ==
  /\ inv[p].pc = "catch"
  /\ inv' = [ inv EXCEPT ![p] = [ @ EXCEPT !.pc = "done", !.result = "rejected" ] ]
  /\ UNCHANGED <<jobs, meetings, briefs, documents, analytics, req, gen, calendarEvents, cal, query, poller, home, parse,
                 filter, token>>

\* ------------------------------------------------------------------------
\* generateBriefWithAI once the service has answered: parsing, sources,
\* word budget; and the row processJob stores from the brief returned
\* ------------------------------------------------------------------------
maxWords == 350

\* `contextBullets`: computed from the audience level; no statement of the
\* function reads it
contextBullets(audienceLevel) == IF audienceLevel = "exec" THEN 3 ELSE 5

\* a text: so many words, followed by so many " [Source: name.ext]" annotations
Text(words, cites) == [ words |-> words, cites |-> cites ]

\* text.replace(/\s*\[Source:[^\]]+\]/g, "")
removeCitations(text) == [ text EXCEPT !.cites = 0 ]

\* an annotation left in a text is two words, "[Source:" and "name.ext]"
CiteTokens == 2

\* text.trim().split(/\s+/).filter(w => w.length > 0).length
Words(text) == text.words + CiteTokens * text.cites

\* texts.map(removeCitations)
Stripped(texts) == [ i \in DOMAIN texts |-> removeCitations(texts[i]) ]

\* the words of texts.join(" ")
RECURSIVE JoinedWords(_)
JoinedWords(texts) ==
  IF Len(texts) = 0 THEN 0
  ELSE Words(texts[1]) + JoinedWords(SubSeq(texts, 2, Len(texts)))

\* brief.options.forEach: option, pros and cons, citations removed
RECURSIVE OptionWords(_)
OptionWords(options) ==
  IF Len(options) = 0 THEN 0
  ELSE Words(removeCitations(options[1].option))
       + JoinedWords(Stripped(options[1].pros))
       + JoinedWords(Stripped(options[1].cons))
       + OptionWords(SubSeq(options, 2, Len(options)))

\* brief.actionChecklist.forEach: owner, task and dueDate as they are
RECURSIVE ActionWords(_)
ActionWords(actions) ==
  IF Len(actions) = 0 THEN 0
  ELSE Words(actions[1].owner) + Words(actions[1].task) + Words(actions[1].dueDate)
       + ActionWords(SubSeq(actions, 2, Len(actions)))

calculateWordCount(brief) ==
  Words(removeCitations(brief.goal))
  + JoinedWords(Stripped(brief.context))
  + OptionWords(brief.options)
  + JoinedWords(Stripped(brief.risksTradeoffs))
  + JoinedWords(Stripped(brief.decisions))
  + ActionWords(brief.actionChecklist)

\* file names, and String.prototype.toLowerCase on them
Filenames == {"a.txt", "A.TXT", "b.pdf"}
toLowerCase(name) == IF name = "A.TXT" THEN "a.txt" ELSE name

\* the value of a property an object does not have
Undefined == "undefined"
NullSection == "null"

\* `sources` as the service may answer it: no such property, something that
\* is not a list, or a list of entries whose filename may be missing
SourceEntry(label, filename, section) ==
  [ label |-> label, filename |-> filename, section |-> section ]
ModelEntries ==
  { SourceEntry("Summary", f, "Intro") : f \in {"A.TXT", "b.pdf", Undefined} }
ModelSources ==
  { [ kind |-> "undefined", items |-> <<>> ], [ kind |-> "string", items |-> <<>> ] }
  \cup { [ kind |-> "array", items |-> items ] :
           items \in UNION { [1..n -> ModelEntries] : n \in 0..MaxFiles } }

\* if (!Array.isArray(brief.sources)) brief.sources = []
EnsureSources(sources) == IF sources.kind = "array" THEN sources.items ELSE <<>>

\* new Set(brief.sources.map(s => s.filename?.toLowerCase()))
SourcedFiles(sources) ==
  { IF sources[i].filename = Undefined THEN Undefined
    ELSE toLowerCase(sources[i].filename) : i \in DOMAIN sources }

\* Sourced comparing the file name as it was uploaded
Sourced_CaseSensitive(sourcedFiles, filename) == filename \in sourcedFiles

\* sourcedFiles.has(filename.toLowerCase())
Sourced(sourcedFiles, filename) == toLowerCase(filename) \in sourcedFiles

\* the entry pushed for an uploaded file the sources do not name
Synthetic(filename) == SourceEntry("Referenced document", filename, NullSection)

\* for (const filename of uploadedFilenames): the set was built before the loop
RECURSIVE AddMissing(_, _, _)
AddMissing(sources, sourcedFiles, uploadedFilenames) ==
  IF Len(uploadedFilenames) = 0 THEN sources
  ELSE AddMissing(
         IF Sourced(sourcedFiles, uploadedFilenames[1]) THEN sources
         ELSE Append(sources, Synthetic(uploadedFilenames[1])),
         sourcedFiles,
         SubSeq(uploadedFilenames, 2, Len(uploadedFilenames)))

\* the brief with its sources completed
WithSources(raw, uploadedFilenames) ==
  LET sources == EnsureSources(raw.sources)
  IN  [ raw EXCEPT !.sources =
          AddMissing(sources, SourcedFiles(sources), uploadedFilenames) ]

\* CanPop that leaves two bullets
CanPop_MoreThanTwo(context) == Len(context) > 2

\* CanPop that also takes the last bullet
CanPop_NonEmpty(context) == Len(context) > 0

\* brief.context && brief.context.length > 1
CanPop(context) == Len(context) > 1

\* brief.context.pop()
Pop(context) == SubSeq(context, 1, Len(context) - 1)

\* while (calculateWordCount(brief) > maxWords && ...) brief.context.pop()
RECURSIVE Truncate(_)
Truncate(brief) ==
  IF calculateWordCount(brief) > maxWords /\ CanPop(brief.context)
    THEN Truncate([ brief EXCEPT !.context = Pop(@) ])
    ELSE brief

\* if (wordCount > maxWords) { ... }
EnforceWordLimit(brief) ==
  IF calculateWordCount(brief) > maxWords THEN Truncate(brief) ELSE brief

\* { ...brief, wordCount: finalWordCount } (generatedAt, a timestamp, is left out)
Returned(brief) ==
  [ goal |-> brief.goal, context |-> brief.context, options |-> brief.options,
    risksTradeoffs |-> brief.risksTradeoffs, decisions |-> brief.decisions,
    actionChecklist |-> brief.actionChecklist, sources |-> brief.sources,
    wordCount |-> calculateWordCount(brief) ]

\* the JSON objects of the right shape the service may answer with
Bullets == { Text(20, 1), Text(150, 1) }
Contexts == UNION { [1..n -> Bullets] : n \in 0..MaxBullets }
OptionLists ==
  { << [ option |-> Text(5, 1), pros |-> <<Text(20, 1)>>, cons |-> <<Text(20, 0)>> ] >>,
    << [ option |-> Text(5, 1), pros |-> <<Text(400, 1)>>, cons |-> <<Text(20, 0)>> ] >> }
ActionLists ==
  { << [ owner |-> Text(2, 0), task |-> Text(8, 1), dueDate |-> Text(1, 0) ] >> }
RawBrief(context, options, actionChecklist, sources) ==
  [ goal |-> Text(12, 1), context |-> context, options |-> options,
    risksTradeoffs |-> <<Text(30, 1)>>, decisions |-> <<Text(10, 1)>>,
    actionChecklist |-> actionChecklist, sources |-> sources ]
NoBrief == RawBrief(<<>>, <<>>, <<>>, [ kind |-> "undefined", items |-> <<>> ])

\* the content of the service's answer: not JSON, JSON of the wrong shape, or
\* an object validateBriefStructure accepts
Answers ==
  { [ kind |-> k, brief |-> NoBrief ] : k \in {"nonjson", "badshape"} }
  \cup { [ kind |-> "valid", brief |-> RawBrief(c, o, a, s) ] :
           c \in Contexts, o \in OptionLists, a \in ActionLists, s \in ModelSources }

\* uploadedFilenames: the names of the documents of the job, at least one
UploadedNames == UNION { [1..n -> Filenames] : n \in 1..MaxFiles }

NoReturn == Returned([ NoBrief EXCEPT !.sources = <<>> ])

IdleGen ==
  [ pc |-> "idle", audienceLevel |-> "", uploadedFilenames |-> <<>>,
    answer |-> [ kind |-> "none", brief |-> NoBrief ],
    sourced |-> [ NoBrief EXCEPT !.sources = <<>> ],
    brief |-> NoReturn, error |-> NullText ]

\* callOpenAIWithRetry resolved with `answer`: the rest of generateBriefWithAI
\* runs to its return or to its throw
Generate(answer) ==
  /\ gen.pc = "callOpenAI"
  /\ gen' =
       CASE answer.kind = "nonjson" ->
              [ gen EXCEPT !.pc = "threw", !.answer = answer,
                           !.error = GenerationFailed(InvalidJSONMsg) ]
         [] answer.kind = "badshape" ->
              [ gen EXCEPT !.pc = "threw", !.answer = answer,
                           !.error = GenerationFailed(InvalidStructureMsg) ]
         [] OTHER ->
              LET sourced == WithSources(answer.brief, gen.uploadedFilenames)
              IN  [ gen EXCEPT !.pc = "returned", !.answer = answer,
                               !.sourced = sourced,
                               !.brief = Returned(EnforceWordLimit(sourced)) ]
  /\ UNCHANGED <<jobs, meetings, briefs, documents, analytics, req, inv,
                 calendarEvents, cal, query, poller, home, parse,
                 filter, token>>

\* the values processJob passes to createBrief
BriefValues(meetingId, brief) ==
  [ meetingId |-> meetingId, goal |-> brief.goal, context |-> brief.context,
    options |-> brief.options, risksTradeoffs |-> brief.risksTradeoffs,
    decisions |-> brief.decisions, actionChecklist |-> brief.actionChecklist,
    sources |-> brief.sources, wordCount |-> brief.wordCount ]

\* processJob stores the brief returned: createMeeting, then createBrief
SaveBrief ==
  /\ gen.pc = "returned"
  /\ meetings' = Append(meetings, MeetingMetadata(1, gen.audienceLevel))
  /\ briefs' = Append(briefs, BriefValues(Len(meetings) + 1, gen.brief))
  /\ gen' = [ gen EXCEPT !.pc = "saved" ]
  /\ UNCHANGED <<jobs, documents, analytics, req, inv, calendarEvents, cal, query, poller, home, parse,
                 filter, token>>

\* ------------------------------------------------------------------------
\* POST /api/calendar/generate-brief
\* ------------------------------------------------------------------------
CalReqs == 1..MaxCalRequests
\* with the further requests for the same event
CalSlots == 1..(MaxCalRequests + MaxCalRepeats)

\* ids of calendar_events rows: one left by an earlier request, one per request
RecordIds == 1..(MaxCalRequests + 1)

\* the processJob invocation that calendar request c triggers
CalProc(c) == MaxSubmissions + c

\* the names of the documents the handler makes up (an uploaded file is named
\* by its position in the request)
EventDescriptionTxt == 101   \* "event_description.txt"
EventInfoTxt == 102          \* "event_info.txt"

\* req.body.eventId: missing, or the id of an event
EventIds == {"", "e1"}

\* what googleCalendar.getEventById resolves with: null, or the event
NoEvent == [ found |-> FALSE, summary |-> 0, attendees |-> "", description |-> FALSE ]
CalendarEvents ==
  { NoEvent,
    [ found |-> TRUE, summary |-> 7, attendees |-> "A, B", description |-> TRUE ],
    [ found |-> TRUE, summary |-> 7, attendees |-> "", description |-> FALSE ] }

\* a row of calendar_events
EventRecord(eventId, summary, briefId) ==
  [ calendarId |-> "primary", eventId |-> eventId, summary |-> summary,
    briefId |-> briefId ]

\* getCalendarEvent: the rows a select on (calendarId, eventId) may yield as
\* its first row; NullId stands for `undefined`
getCalendarEvent(calendarId, eventId) ==
  LET found == { i \in DOMAIN calendarEvents :
                   /\ calendarEvents[i].calendarId = calendarId
                   /\ calendarEvents[i].eventId = eventId }
  IN  IF found = {} THEN {NullId} ELSE found

\* metadata built from the event and the request body
CalMetadata(event, meetingType, audienceLevel) ==
  [ title |-> event.summary,
    attendees |-> IF event.attendees = "" THEN "TBD" ELSE event.attendees,
    meetingType |-> IF meetingType = "" THEN "decision" ELSE meetingType,
    audienceLevel |-> IF audienceLevel = "" THEN "exec" ELSE audienceLevel ]

IdleCal ==
  [ pc |-> "idle", files |-> 0, eventId |-> "", force |-> FALSE,
    audienceLevel |-> "", existing |-> NullId, event |-> NoEvent, parsed |-> {},
    metadata |-> NoMetadata, documentContents |-> <<>>, status |-> 0,
    error |-> NullText, jobId |-> NullId, existingBriefId |-> NullId,
    cleaned |-> 0, triggered |-> FALSE,
    then |-> "none", completedBriefId |-> NullId, calEvent |-> NullId ]

\* uploadedFiles of the calendar handler: req.files || []
CalUploadedFiles(files) == files

\* an exit of the handler that answers without a job id: cleanupFile on every
\* element of uploadedFiles, then the response
CalExit(r, status, error) ==
  [ r EXCEPT !.pc = "done", !.status = status, !.error = error,
             !.cleaned = CalUploadedFiles(r.files) ]

\* the request arrives: without eventId it is answered 400
CalReceive(c, files, eventId, force, audienceLevel) ==
  /\ cal[c].pc = "idle"
  /\ LET seen == [ cal[c] EXCEPT !.files = files, !.eventId = eventId,
                                 !.force = force, !.audienceLevel = audienceLevel ]
     IN  cal' = [ cal EXCEPT ![c] =
           IF eventId = ""
             THEN CalExit(seen, 400, <<"Event ID is required">>)
             ELSE [ seen EXCEPT !.pc = "getCalendarEvent" ] ]
  /\ UNCHANGED <<jobs, meetings, briefs, documents, analytics, req, inv, gen,
                 calendarEvents, query, poller, home, parse,
                 filter, token>>

\* getCalendarEvent resolves: an event that has its brief is answered with it
\* unless `force` is set
CalGetRecord(c, existing) ==
  /\ cal[c].pc = "getCalendarEvent"
  /\ existing \in getCalendarEvent("primary", cal[c].eventId)
  /\ cal' = [ cal EXCEPT ![c] =
       IF existing # NullId /\ calendarEvents[existing].briefId # NullId
          /\ ~cal[c].force
         THEN [ CalExit(cal[c], 200, NullText) EXCEPT
                  !.existing = existing,
                  !.existingBriefId = calendarEvents[existing].briefId ]
         ELSE [ @ EXCEPT !.pc = "getEventById", !.existing = existing ] ]
  /\ UNCHANGED <<jobs, meetings, briefs, documents, analytics, req, inv, gen,
                 calendarEvents, query, poller, home, parse,
                 filter, token>>

\* WithEventInfo that makes up no document
WithEventInfo_Never(documentContents) == documentContents

\* if (documentContents.length === 0) documentContents.push(event_info.txt)
WithEventInfo(documentContents) ==
  IF Len(documentContents) = 0 THEN <<EventInfoTxt>> ELSE documentContents

\* getEventById resolves: no event is answered 404; otherwise the uploaded
\* files are parsed (those that fail are skipped), the description of the
\* event is added as a document, and a document is made up when there is none
CalGetEvent(c, event, ok) ==
  /\ cal[c].pc = "getEventById"
  /\ ok \subseteq 1..cal[c].files
  /\ LET uploaded == ParsedInOrder(1, cal[c].files, ok)
         described == uploaded \o
                        (IF event.description THEN <<EventDescriptionTxt>> ELSE <<>>)
         docs == WithEventInfo(described)
     IN  cal' = [ cal EXCEPT ![c] =
           IF ~event.found
             THEN CalExit(cal[c], 404, <<"Event not found">>)
             ELSE [ @ EXCEPT !.pc = "createJob", !.event = event, !.parsed = ok,
                             !.documentContents = docs,
                             !.metadata = CalMetadata(event, "", cal[c].audienceLevel) ] ]
  /\ UNCHANGED <<jobs, meetings, briefs, documents, analytics, req, inv, gen,
                 calendarEvents, query, poller, home, parse,
                 filter, token>>

\* createJob resolves
CalCreateJob(c) ==
  /\ cal[c].pc = "createJob"
  /\ jobs' = Append(jobs, InsertedJob(NewJobValues(cal[c].metadata,
                            cal[c].documentContents, cal[c].documentContents)))
  /\ cal' = [ cal EXCEPT ![c] = [ @ EXCEPT !.pc = "saveEvent", !.jobId = Len(jobs) + 1 ] ]
  /\ UNCHANGED <<meetings, briefs, documents, analytics, req, inv, gen, calendarEvents, query, poller, home, parse,
                 filter, token>>

\* updateCalendarEvent or createCalendarEvent resolves (which one was decided
\* by the record read at the start); then cleanup, the response with the job
\* id, and processJob(job.id), which runs up to its first await
CalSaveEvent(c) ==
  /\ cal[c].pc = "saveEvent"
  /\ calendarEvents' =
       IF cal[c].existing # NullId
         THEN [ calendarEvents EXCEPT ![cal[c].existing] =
                  [ @ EXCEPT !.summary = cal[c].event.summary, !.briefId = NullId ] ]
         ELSE Append(calendarEvents,
                     EventRecord(cal[c].eventId, cal[c].event.summary, NullId))
  /\ cal' = [ cal EXCEPT ![c] =
       [ @ EXCEPT !.pc = "done", !.status = 200, !.triggered = TRUE,
                  !.cleaned = CalUploadedFiles(cal[c].files),
                  !.then = "waiting" ] ]
  /\ inv' = [ inv EXCEPT ![CalProc(c)] =
       [ IdleInv EXCEPT !.pc = "getJob", !.jobId = cal[c].jobId ] ]
  /\ UNCHANGED <<jobs, meetings, briefs, documents, analytics, req, gen, query, poller, home, parse,
                 filter, token>>

\* the awaits of the handler that may reject
CalAwaits == { "getCalendarEvent", "getEventById", "createJob", "saveEvent" }

\* an awaited call rejects: the catch block cleans up and answers 500
CalThrows(c) ==
  /\ cal[c].pc \in CalAwaits
  /\ cal' = [ cal EXCEPT ![c] = CalExit(cal[c], 500, StoreError) ]
  /\ UNCHANGED <<jobs, meetings, briefs, documents, analytics, req, inv, gen,
                 calendarEvents, query, poller, home, parse,
                 filter, token>>

\* processJob(job.id).then(...).catch(...): the promise of processJob
\* settled. Resolved, the callback starts with getJob; rejected, .catch logs
CalThen(c) ==
  /\ cal[c].then = "waiting"
  /\ inv[CalProc(c)].pc = "done"
  /\ cal' = [ cal EXCEPT ![c] =
       [ @ EXCEPT !.then = IF inv[CalProc(c)].result = "returned"
                             THEN "getJob" ELSE "done" ] ]
  /\ UNCHANGED <<jobs, meetings, briefs, documents, analytics, req, inv, gen,
                 calendarEvents, query, poller, home, parse,
                 filter, token>>

\* completedJob?.status === "completed" && completedJob.resultBriefId
HasBrief(job) == job.status = "completed" /\ job.resultBriefId # NullId

\* the callback's getJob resolves
CalThenGetJob(c) ==
  /\ cal[c].then = "getJob"
  /\ LET completedJob == getJob(cal[c].jobId)
     IN  cal' = [ cal EXCEPT ![c] =
           IF HasBrief(completedJob)
             THEN [ @ EXCEPT !.then = "getCalendarEvent",
                             !.completedBriefId = completedJob.resultBriefId ]
             ELSE [ @ EXCEPT !.then = "done" ] ]
  /\ UNCHANGED <<jobs, meetings, briefs, documents, analytics, req, inv, gen,
                 calendarEvents, query, poller, home, parse,
                 filter, token>>

\* the callback's getCalendarEvent resolves
CalThenGetRecord(c, calEvent) ==
  /\ cal[c].then = "getCalendarEvent"
  /\ calEvent \in getCalendarEvent("primary", cal[c].eventId)
  /\ cal' = [ cal EXCEPT ![c] =
       IF calEvent # NullId
         THEN [ @ EXCEPT !.then = "updateCalendarEvent", !.calEvent = calEvent ]
         ELSE [ @ EXCEPT !.then = "done" ] ]
  /\ UNCHANGED <<jobs, meetings, briefs, documents, analytics, req, inv, gen,
                 calendarEvents, query, poller, home, parse,
                 filter, token>>

\* updateCalendarEvent(calEvent.id, {briefId}) resolves
CalThenUpdate(c) ==
  /\ cal[c].then = "updateCalendarEvent"
  /\ calendarEvents' = [ calendarEvents EXCEPT ![cal[c].calEvent] =
       [ @ EXCEPT !.briefId = cal[c].completedBriefId ] ]
  /\ cal' = [ cal EXCEPT ![c] = [ @ EXCEPT !.then = "done" ] ]
  /\ UNCHANGED <<jobs, meetings, briefs, documents, analytics, req, inv, gen, query, poller, home, parse,
                 filter, token>>

\* a store call of the callback rejects: .catch logs
CalThenThrows(c) ==
  /\ cal[c].then \in {"getJob", "getCalendarEvent", "updateCalendarEvent"}
  /\ cal' = [ cal EXCEPT ![c] = [ @ EXCEPT !.then = "caught" ] ]
  /\ UNCHANGED <<jobs, meetings, briefs, documents, analytics, req, inv, gen,
                 calendarEvents, query, poller, home, parse,
                 filter, token>>

\* ------------------------------------------------------------------------
\* GET /api/jobs/:id
\* ------------------------------------------------------------------------
\* getBrief: the id of the row found, NullId for `undefined`
getBrief(id) == IF id \in DOMAIN briefs THEN id ELSE NullId

\* Embeds without the test of the status
Embeds_AnyResult(job) == job.resultBriefId # NullId

\* job.status === "completed" && job.resultBriefId
Embeds(job) == job.status = "completed" /\ job.resultBriefId # NullId

\* the `job` object of the response
JobView(id, job) ==
  [ id |-> id, status |-> job.status,
    progress |-> IF job.progress # 0 THEN job.progress ELSE 0,
    error |-> job.error, resultBriefId |-> job.resultBriefId ]

IdleQuery ==
  [ pc |-> "idle", jobId |-> NullId, job |-> NoJob, status |-> 0,
    view |-> JobView(NullId, NoJob), brief |-> NullId ]

\* the response: status 200, the job as it was read, and the brief (the id of
\* the row it was formatted from) or null
Answer(q, brief) ==
  [ q EXCEPT !.pc = "done", !.status = 200, !.view = JobView(q.jobId, q.job),
             !.brief = brief ]

\* the request arrives and getJob is issued
QueryReceive(id) ==
  /\ query.pc = "idle"
  /\ query' = [ query EXCEPT !.pc = "getJob", !.jobId = id ]
  /\ UNCHANGED <<jobs, meetings, briefs, documents, analytics, req, inv, gen,
                 calendarEvents, cal, poller, home, parse,
                 filter, token>>

\* getJob resolves: 404 without a job; the answer at once unless the job is
\* completed and has its brief id, in which case getBrief is issued
QueryGetJob ==
  /\ query.pc = "getJob"
  /\ LET job == getJob(query.jobId)
         read == [ query EXCEPT !.job = job ]
     IN  query' =
           IF job.status = "undefined"
             THEN [ query EXCEPT !.pc = "done", !.status = 404 ]
           ELSE IF Embeds(job) THEN [ read EXCEPT !.pc = "getBrief" ]
           ELSE Answer(read, NullId)
  /\ UNCHANGED <<jobs, meetings, briefs, documents, analytics, req, inv, gen,
                 calendarEvents, cal, poller, home, parse,
                 filter, token>>

\* getBrief resolves: the brief is formatted when the row was found
QueryGetBrief ==
  /\ query.pc = "getBrief"
  /\ query' = Answer(query, getBrief(query.job.resultBriefId))
  /\ UNCHANGED <<jobs, meetings, briefs, documents, analytics, req, inv, gen,
                 calendarEvents, cal, poller, home, parse,
                 filter, token>>

\* getJob or getBrief rejects: the catch block answers 500
QueryThrows ==
  /\ query.pc \in {"getJob", "getBrief"}
  /\ query' = [ query EXCEPT !.pc = "done", !.status = 500 ]
  /\ UNCHANGED <<jobs, meetings, briefs, documents, analytics, req, inv, gen,
                 calendarEvents, cal, poller, home, parse,
                 filter, token>>

\* ------------------------------------------------------------------------
\* The calendar page's pollForCompletion (calendar.tsx 128-199).  One step
\* per fetch sent, per fetch settled and per timer fired.
MAX_ATTEMPTS == 60
BASE_DELAY == 1500

\* delays are kept in microseconds; growth is followed up to MaxDelayTracked
\* milliseconds, which is above both caps
Ms(n) == n * 1000

\* x * (num/den)^k, the product BASE_DELAY * Math.pow(ratio, attempts - 1)
RECURSIVE Grown(_, _, _, _)
Grown(x, k, num, den) ==
  IF x >= Ms(MaxDelayTracked) THEN Ms(MaxDelayTracked)
  ELSE IF k = 0 THEN x
  ELSE Grown((x * num) \div den, k - 1, num, den)

AtMost_Uncapped(x, cap) == x

\* Math.min(x, cap)
AtMost(x, cap) == IF x < cap THEN x ELSE cap

\* the wait after a response that was handled / after a request that failed
DelayAfterOk(attempts) == AtMost(Grown(Ms(BASE_DELAY), attempts - 1, 11, 10), Ms(5000))
DelayAfterError(attempts) == AtMost(Grown(Ms(BASE_DELAY), attempts - 1, 3, 2), Ms(10000))

\* what a status request can come back with: the request fails (fetch
\* rejects, the status is not 2xx, the body is not JSON), or data.job.status
\* and data.brief.id are read from the body
PollStatuses == {"pending", "processing", "completed", "failed"}
PollReplies ==
  [ ok : {FALSE}, status : {"none"}, brief : {NullId} ]
    \cup [ ok : {TRUE}, status : PollStatuses, brief : {NullId, 1} ]

IdlePoller ==
  [ pc |-> "idle", jobId |-> NullId, attempts |-> 0, delay |-> 0,
    after |-> "none", outcome |-> "none",
    reply |-> [ ok |-> FALSE, status |-> "none", brief |-> NullId ] ]

\* poll(): attempts++ and the fetch is sent
SendPoll(q) == [ q EXCEPT !.pc = "fetching", !.attempts = @ + 1 ]

\* pollForCompletion(jobId): attempts = 0 and the first poll()
PollStart(jobId) ==
  /\ poller.pc = "idle"
  /\ poller' = SendPoll([ poller EXCEPT !.jobId = jobId, !.attempts = 0 ])
  /\ UNCHANGED <<jobs, meetings, briefs, documents, analytics, req, inv, gen,
                 calendarEvents, cal, query, home, parse,
                 filter, token>>

\* the try block after the response was read
PollHandled(q, r) ==
  IF r.status = "completed" /\ r.brief # NullId
    THEN [ q EXCEPT !.pc = "stopped", !.outcome = "navigated" ]
  ELSE IF r.status = "failed"
    THEN [ q EXCEPT !.pc = "stopped", !.outcome = "failed" ]
  ELSE IF q.attempts >= MAX_ATTEMPTS
    THEN [ q EXCEPT !.pc = "stopped", !.outcome = "timeout" ]
  ELSE [ q EXCEPT !.pc = "waiting", !.after = "ok",
                  !.delay = DelayAfterOk(q.attempts) ]

\* the catch block
PollCaught(q) ==
  IF q.attempts >= MAX_ATTEMPTS
    THEN [ q EXCEPT !.pc = "stopped", !.outcome = "connection" ]
  ELSE [ q EXCEPT !.pc = "waiting", !.after = "error",
                  !.delay = DelayAfterError(q.attempts) ]

\* the fetch settles
PollReply(r) ==
  /\ poller.pc = "fetching"
  /\ LET q == [ poller EXCEPT !.reply = r, !.delay = 0, !.after = "none" ]
     IN  poller' = IF r.ok THEN PollHandled(q, r) ELSE PollCaught(q)
  /\ UNCHANGED <<jobs, meetings, briefs, documents, analytics, req, inv, gen,
                 calendarEvents, cal, query, home, parse,
                 filter, token>>

\* the timer set by setTimeout(poll, delay) fires
PollTimer ==
  /\ poller.pc = "waiting"
  /\ poller' = SendPoll(poller)
  /\ UNCHANGED <<jobs, meetings, briefs, documents, analytics, req, inv, gen,
                 calendarEvents, cal, query, home, parse,
                 filter, token>>

\* ------------------------------------------------------------------------
\* parseCSV and parseExcel (document-parser.ts 149-249).  A cell is a
\* JavaScript value: a string (the only kind csv-parse yields), a number or a
\* boolean (sheet_to_json); row[colIndex] past the end of the row is
\* undefined.  The text returned is kept as its sequence of lines.
StrCell(s) == [ t |-> "string", n |-> 0, b |-> FALSE, s |-> s ]
NumCell(n) == [ t |-> "number", n |-> n, b |-> FALSE, s |-> "" ]
BoolCell(b) == [ t |-> "boolean", n |-> 0, b |-> b, s |-> "" ]
NoCell == [ t |-> Undefined, n |-> 0, b |-> FALSE, s |-> "" ]

\* the cells of the inputs
CsvCells == { StrCell(""), StrCell("0"), StrCell("false"), StrCell("Owner"),
              StrCell("1/2/24") }
ExcelCells == { NumCell(0), BoolCell(FALSE), StrCell(""), StrCell("Owner") }

\* row[colIndex], columns counted from 1
At(row, colIndex) == IF colIndex <= Len(row) THEN row[colIndex] ELSE NoCell

\* `${value}`, String(value)
Template(value) ==
  CASE value.t = "string" -> value.s
    [] value.t = "number" -> IF value.n = 0 THEN "0" ELSE "1"
    [] value.t = "boolean" -> IF value.b THEN "true" ELSE "false"
    [] OTHER -> Undefined

\* a value in a condition
Truthy(value) ==
  CASE value.t = "string" -> value.s # ""
    [] value.t = "number" -> value.n # 0
    [] value.t = "boolean" -> value.b
    [] OTHER -> FALSE

\* isNaN(Number(cell)): Number("") and Number(false) are 0
NumberIsNaN(value) ==
  value.t = Undefined \/ (value.t = "string" /\ value.s \notin {"", "0", "1"})

\* /^\d{1,2}[\/\-]\d{1,2}[\/\-]\d{2,4}$/.test(cell)
LooksLikeDate(value) == value.t = "string" /\ value.s \in {"1/2/24"}

Line(k, n, headers, value) ==
  [ k |-> k, n |-> n, headers |-> headers, value |-> value ]

\* a header: the text of a cell of the first row, or `Column ${i + 1}`
Named(value) == [ name |-> Template(value), col |-> 0 ]
Column(i) == [ name |-> "Column", col |-> i ]

Emitted_Truthy(value) == Truthy(value)

\* value !== undefined && value !== null
Emitted(value) == value.t \notin {Undefined, "null"}

\* headers.forEach: one line per header whose cell is emitted
RECURSIVE CellLines(_, _, _)
CellLines(headers, row, colIndex) ==
  IF colIndex > Len(headers) THEN <<>>
  ELSE (IF Emitted(At(row, colIndex))
          THEN << Line("cell", 0, <<headers[colIndex]>>,
                       Template(At(row, colIndex))) >>
          ELSE <<>>)
       \o CellLines(headers, row, colIndex + 1)

\* rows.forEach: "Row n:", the cells, an empty line
RECURSIVE RowLines(_, _, _)
RowLines(headers, rows, index) ==
  IF index > Len(rows) THEN <<>>
  ELSE << Line("row", index, <<>>, "") >> \o CellLines(headers, rows[index], 1)
       \o << Line("blank", 0, <<>>, "") >> \o RowLines(headers, rows, index + 1)

\* parseCSV: its locals and the text returned
CsvHasHeaders(firstRow) ==
  \E i \in 1..Len(firstRow) :
    Truthy(firstRow[i]) /\ NumberIsNaN(firstRow[i]) /\ ~LooksLikeDate(firstRow[i])

CsvHeaders(firstRow) ==
  IF CsvHasHeaders(firstRow)
    THEN [ i \in 1..Len(firstRow) |->
             IF Truthy(firstRow[i]) THEN Named(firstRow[i]) ELSE Column(i) ]
    ELSE [ i \in 1..Len(firstRow) |-> Column(i) ]

CsvDataRows(rawRecords) ==
  IF CsvHasHeaders(rawRecords[1]) THEN Tail(rawRecords) ELSE rawRecords

parseCSV(rawRecords) ==
  IF Len(rawRecords) = 0 THEN << Line("empty", 0, <<>>, "Empty CSV file") >>
  ELSE LET headers == CsvHeaders(rawRecords[1])
           dataRows == CsvDataRows(rawRecords)
       IN  << Line("title", Len(dataRows), <<>>, ""),
              Line("columns", 0, headers, ""), Line("blank", 0, <<>>, "") >>
           \o RowLines(headers, dataRows, 1)

\* parseExcel: the locals of one sheet and the text added for it
IsBlank(value) == value.t \in {Undefined, "null"} \/ value = StrCell("")

ExcelHasHeaders(firstRow) ==
  \E i \in 1..Len(firstRow) :
    ~IsBlank(firstRow[i]) /\ firstRow[i].t = "string" /\ NumberIsNaN(firstRow[i])

ExcelHeaders(firstRow) ==
  IF ExcelHasHeaders(firstRow)
    THEN [ i \in 1..Len(firstRow) |->
             IF ~IsBlank(firstRow[i]) THEN Named(firstRow[i]) ELSE Column(i) ]
    ELSE [ i \in 1..Len(firstRow) |-> Column(i) ]

ExcelRows(jsonData) ==
  IF ExcelHasHeaders(jsonData[1]) THEN Tail(jsonData) ELSE jsonData

SheetLines(jsonData, sheetIndex, sheets) ==
  IF Len(jsonData) = 0 THEN <<>>
  ELSE LET headers == ExcelHeaders(jsonData[1])
           rows == ExcelRows(jsonData)
       IN  << Line("sheet", sheetIndex, <<>>, ""), Line("rule", 40, <<>>, "=") >>
           \o (IF Len(headers) > 0
                 THEN << Line("columns", 0, headers, ""), Line("blank", 0, <<>>, "") >>
                      \o RowLines(headers, rows, 1)
                 ELSE <<>>)
           \o (IF sheetIndex < sheets THEN << Line("blank", 0, <<>>, "") >> ELSE <<>>)

RECURSIVE WorkbookLines(_, _)
WorkbookLines(workbook, sheetIndex) ==
  IF sheetIndex > Len(workbook) THEN <<>>
  ELSE SheetLines(workbook[sheetIndex], sheetIndex, Len(workbook))
       \o WorkbookLines(workbook, sheetIndex + 1)

parseExcel(workbook) ==
  LET text == WorkbookLines(workbook, 1)
  IN  IF text = <<>> THEN << Line("empty", 0, <<>>, "Empty spreadsheet") >>
      ELSE text

\* the files read: the records csv-parse returns for a CSV file (rows of one
\* cell or more, of any length: relax_column_count), and for a workbook the
\* rows sheet_to_json returns for each sheet (every row as wide as the
\* sheet's range, absent cells filled with defval "")
RowsOver(cells, widths) ==
  UNION { [ 1..w -> cells ] : w \in widths }

TablesOver(rowSet) ==
  UNION { [ 1..r -> rowSet ] : r \in 0..MaxRows }

CsvFiles == TablesOver(RowsOver(CsvCells, 1..MaxCols))

Sheets ==
  UNION { TablesOver(RowsOver(ExcelCells, {w})) : w \in 1..MaxCols }

Workbooks == UNION { [ 1..s -> Sheets ] : s \in 1..MaxSheets }

IdleParse == [ pc |-> "idle", type |-> "none", input |-> <<>>, text |-> <<>> ]

\* parseDocument dispatches on the MIME type; the parser's text is returned
ParseCSV ==
  /\ parse.pc = "ready"
  /\ parse.type = "text/csv"
  /\ parse' = [ parse EXCEPT !.pc = "done", !.text = parseCSV(parse.input) ]
  /\ UNCHANGED <<jobs, meetings, briefs, documents, analytics, req, inv, gen,
                 calendarEvents, cal, query, poller, home,
                 filter, token>>

ParseExcel ==
  /\ parse.pc = "ready"
  /\ parse.type = "application/vnd.ms-excel"
  /\ parse' = [ parse EXCEPT !.pc = "done", !.text = parseExcel(parse.input) ]
  /\ UNCHANGED <<jobs, meetings, briefs, documents, analytics, req, inv, gen,
                 calendarEvents, cal, query, poller, home,
                 filter, token>>

\* ------------------------------------------------------------------------
\* The home page (brief-detail.tsx 271-492): the component's state, the two
\* localStorage entries, the submission in flight and the status requests in
\* flight.  A status request is answered from the tables as GET /api/jobs/:id
\* answers it.  Requests sent by an instance of the component that has since
\* unmounted are still answered: their state setters do nothing, their
\* localStorage calls do.
NothingYet == [ op |-> "none", id |-> NullId, status |-> "none" ]

IdleHome ==
  [ mounted |-> FALSE, jobId |-> NullId, isPolling |-> FALSE,
    generatedBrief |-> NullId,
    storedJobId |-> NullId,      \* localStorage briefbot_active_job_id
    storedMetadata |-> NullId,   \* localStorage briefbot_job_metadata: whose form
    submit |-> "idle", submitSlot |-> 0, submitLive |-> FALSE,
    polls |-> [ j \in JobIds |-> 0 ],   \* sent by the mounted instance
    stale |-> [ j \in JobIds |-> 0 ],   \* sent by an instance now unmounted
    last |-> NothingYet ]

\* isLoading = submitJobMutation.isPending || isPolling
IsLoading == (home.submit = "pending" /\ home.submitLive) \/ home.isPolling

\* one more status request for job id may be in flight
MayPoll(id) == home.polls[id] + home.stale[id] < MaxInFlight

\* clearStoredJobState()
ClearStored(h) == [ h EXCEPT !.storedJobId = NullId, !.storedMetadata = NullId ]

\* the effect on [jobId, isPolling]: the initial pollJobStatus(jobId)
Polling(h, id) ==
  [ h EXCEPT !.jobId = id, !.isPolling = TRUE, !.polls[id] = @ + 1 ]

\* storedJobId && storedMetadata
Resumes(h) == h.storedJobId # NullId /\ h.storedMetadata # NullId

\* the component mounts: the mount effect reads localStorage and, with both
\* entries present, sets jobId and isPolling, on which the polling effect
\* sends the first status request and sets the interval
HomeMount ==
  /\ ~home.mounted
  /\ Resumes(home) => MayPoll(home.storedJobId)
  /\ LET h == [ home EXCEPT !.mounted = TRUE,
                  !.last = [ op |-> "mount", id |-> NullId, status |-> "none" ] ]
     IN  home' = IF Resumes(home) THEN Polling(h, home.storedJobId) ELSE h
  /\ UNCHANGED <<jobs, meetings, briefs, documents, analytics, req, inv, gen,
                 calendarEvents, cal, query, poller, parse,
                 filter, token>>

\* the component unmounts: the cleanups clear the interval; the requests in
\* flight stay in flight
HomeUnmount ==
  /\ home.mounted
  /\ home' = [ home EXCEPT !.mounted = FALSE, !.jobId = NullId,
                 !.isPolling = FALSE, !.generatedBrief = NullId,
                 !.submitLive = FALSE,
                 !.stale = [ j \in JobIds |-> home.stale[j] + home.polls[j] ],
                 !.polls = [ j \in JobIds |-> 0 ],
                 !.last = [ op |-> "unmount", id |-> NullId, status |-> "none" ] ]
  /\ UNCHANGED <<jobs, meetings, briefs, documents, analytics, req, inv, gen,
                 calendarEvents, cal, query, poller, parse,
                 filter, token>>

\* the interval fires: pollJobStatus(jobId)
HomeTick ==
  /\ home.mounted /\ home.jobId # NullId /\ home.isPolling
  /\ MayPoll(home.jobId)
  /\ home' = [ home EXCEPT !.polls[home.jobId] = @ + 1,
                 !.last = [ op |-> "tick", id |-> home.jobId, status |-> "none" ] ]
  /\ UNCHANGED <<jobs, meetings, briefs, documents, analytics, req, inv, gen,
                 calendarEvents, cal, query, poller, parse,
                 filter, token>>

\* what GET /api/jobs/:id answers for job id now
HomeReply(id) ==
  LET job == getJob(id)
  IN  IF job.status = "undefined"
        THEN [ ok |-> FALSE, status |-> "none", brief |-> NullId ]
        ELSE [ ok |-> TRUE, status |-> job.status,
               brief |-> IF Embeds(job) THEN getBrief(job.resultBriefId) ELSE NullId ]

\* pollJobStatus(id) after its fetch settled, in the mounted instance
Polled(h, r) ==
  IF r.ok /\ r.status = "completed" /\ r.brief # NullId
    THEN ClearStored([ h EXCEPT !.generatedBrief = r.brief, !.isPolling = FALSE,
                                !.jobId = NullId ])
  ELSE IF r.ok /\ r.status = "failed"
    THEN ClearStored([ h EXCEPT !.isPolling = FALSE, !.jobId = NullId ])
  ELSE h

\* the same in an instance that has unmounted
PolledStale(h, r) ==
  IF r.ok /\ (   (r.status = "completed" /\ r.brief # NullId)
              \/ r.status = "failed" )
    THEN ClearStored(h)
  ELSE h

\* a status request for job id settles: it failed, or the server's answer is
\* dealt with
HomePollSettles(id, live, failed) ==
  /\ IF live THEN home.mounted /\ home.polls[id] > 0 ELSE home.stale[id] > 0
  /\ LET r == IF failed THEN [ ok |-> FALSE, status |-> "none", brief |-> NullId ]
              ELSE HomeReply(id)
         h == [ home EXCEPT
                  !.polls[id] = IF live THEN @ - 1 ELSE @,
                  !.stale[id] = IF live THEN @ ELSE @ - 1,
                  !.last = [ op |-> "poll", id |-> id,
                             status |-> IF r.ok THEN r.status ELSE "error" ] ]
     IN  home' = IF live THEN Polled(h, r) ELSE PolledStale(h, r)
  /\ UNCHANGED <<jobs, meetings, briefs, documents, analytics, req, inv, gen,
                 calendarEvents, cal, query, poller, parse,
                 filter, token>>

\* handleGenerateBrief, from the form (shown when nothing is loading and no
\* brief is displayed): the metadata is stored and the mutation started
HomeGenerate(s) ==
  /\ home.mounted /\ ~IsLoading /\ home.generatedBrief = NullId
  /\ home.submit = "idle" /\ req[s].pc = "idle"
  /\ home' = [ home EXCEPT !.storedMetadata = s, !.submit = "pending",
                 !.submitSlot = s, !.submitLive = TRUE,
                 !.last = [ op |-> "generate", id |-> NullId, status |-> "none" ] ]
  /\ UNCHANGED <<jobs, meetings, briefs, documents, analytics, req, inv, gen,
                 calendarEvents, cal, query, poller, parse,
                 filter, token>>

\* the POST of the mutation reaches the server
HomeRequest(s) ==
  /\ home.submit = "pending" /\ home.submitSlot = s
  /\ Receive(s, 1, "valid", {1}, "ic")

\* the mutation settles: onSuccess stores the job id and, in the mounted
\* instance, starts the polling; onError shows a toast
HomeSubmitSettles(s) ==
  /\ home.submit = "pending" /\ home.submitSlot = s
  /\ req[s].pc = "done"
  /\ LET id == req[s].jobId
         h == [ home EXCEPT !.submit = "idle", !.submitLive = FALSE,
                  !.last = [ op |-> "submitted", id |-> id, status |-> "none" ] ]
     IN  /\ req[s].status = 200 /\ home.submitLive => MayPoll(id)
         /\ home' =
              IF req[s].status # 200 THEN h
              ELSE IF home.submitLive
                THEN Polling([ h EXCEPT !.storedJobId = id ], id)
              ELSE [ h EXCEPT !.storedJobId = id ]
  /\ UNCHANGED <<jobs, meetings, briefs, documents, analytics, req, inv, gen,
                 calendarEvents, cal, query, poller, parse,
                 filter, token>>

\* handleReset, from the brief displayed
HomeReset ==
  /\ home.mounted /\ ~IsLoading /\ home.generatedBrief # NullId
  /\ home' = ClearStored([ home EXCEPT !.generatedBrief = NullId,
                 !.jobId = NullId, !.isPolling = FALSE,
                 !.last = [ op |-> "reset", id |-> NullId, status |-> "none" ] ])
  /\ UNCHANGED <<jobs, meetings, briefs, documents, analytics, req, inv, gen,
                 calendarEvents, cal, query, poller, parse,
                 filter, token>>

\* ------------------------------------------------------------------------
\* An uploaded file, from multer's fileFilter to parseDocument's dispatch.
\* A file name is the sequence of its "."-separated segments.
allowedTypes ==
  { "application/pdf",
    "application/vnd.openxmlformats-officedocument.wordprocessingml.document",
    "application/vnd.openxmlformats-officedocument.presentationml.presentation",
    "text/plain", "text/csv", "text/markdown", "application/vnd.ms-excel",
    "application/vnd.openxmlformats-officedocument.spreadsheetml.sheet" }

allowedExtensions ==
  { <<".", e>> : e \in {"pdf", "docx", "pptx", "txt", "csv", "xls", "xlsx", "md"} }

\* String.prototype.toLowerCase on the segments that occur
SegmentToLowerCase(seg) ==
  CASE seg = "MD" -> "md"
    [] seg = "Pdf" -> "pdf"
    [] seg = "Notes" -> "notes"
    [] OTHER -> seg

\* path.extname: from the last "." of the name on; a name that only starts
\* with a "." has no extension
extname(name) ==
  IF Len(name) >= 2 /\ ~(Len(name) = 2 /\ name[1] = "")
    THEN <<".", name[Len(name)]>>
    ELSE <<>>

ExtToLowerCase(ext) ==
  IF ext = <<>> THEN <<>> ELSE <<".", SegmentToLowerCase(ext[2])>>

\* fileFilter's condition for cb(null, true)
FilterAccepts(name, mimetype) ==
  LET ext == ExtToLowerCase(extname(name))
      isAllowedType == mimetype \in allowedTypes
      isAllowedExt == ext \in allowedExtensions
  IN  isAllowedType \/ isAllowedExt

\* the stored path is the upload directory, a unique suffix, "-" and the
\* original name: `filePath.toLowerCase().split(".").pop()` is the lower-cased
\* last segment of the name, or the whole path when the name has no "."
WholePath == "uploads/1-notes"
PathExt(name) ==
  IF Len(name) >= 2 THEN SegmentToLowerCase(name[Len(name)]) ELSE WholePath

NoMime == "undefined"
mimeMap(ext) ==
  CASE ext = "pdf" -> "application/pdf"
    [] ext = "docx" ->
         "application/vnd.openxmlformats-officedocument.wordprocessingml.document"
    [] ext = "pptx" ->
         "application/vnd.openxmlformats-officedocument.presentationml.presentation"
    [] ext = "txt" -> "text/plain"
    [] ext = "csv" -> "text/csv"
    [] ext = "md" -> "text/markdown"
    [] ext = "xls" -> "application/vnd.ms-excel"
    [] ext = "xlsx" ->
         "application/vnd.openxmlformats-officedocument.spreadsheetml.sheet"
    [] OTHER -> NoMime

\* the declared type wins unless it is empty or application/octet-stream
getMimeTypeFromPath(name, providedMimeType) ==
  IF providedMimeType # "" /\ providedMimeType # "application/octet-stream"
    THEN providedMimeType
  ELSE IF mimeMap(PathExt(name)) # NoMime
    THEN mimeMap(PathExt(name))
  ELSE providedMimeType

NoDecoder == "none"
\* parseDocument's chain of comparisons on the resolved type
Decoder(resolvedMimeType) ==
  CASE resolvedMimeType = "application/pdf" -> "parsePDF"
    [] resolvedMimeType =
         "application/vnd.openxmlformats-officedocument.wordprocessingml.document" ->
         "parseDOCX"
    [] resolvedMimeType =
         "application/vnd.openxmlformats-officedocument.presentationml.presentation" ->
         "parsePPTX"
    [] resolvedMimeType \in {"text/plain", "text/markdown"} -> "parseText"
    [] resolvedMimeType = "text/csv" -> "parseCSV"
    [] resolvedMimeType \in
         { "application/vnd.ms-excel",
           "application/vnd.openxmlformats-officedocument.spreadsheetml.sheet" } ->
         "parseExcel"
    [] OTHER -> NoDecoder

UploadNames ==
  { <<"notes", e>> : e \in { "pdf", "docx", "pptx", "txt", "csv", "xls", "xlsx",
                             "md", "MD", "Pdf", "exe", "" } }
    \cup { <<"notes">>, <<"", "csv">>, <<"Notes", "tar", "md">> }

DeclaredTypes ==
  allowedTypes \cup { "", "application/octet-stream", "text/x-markdown",
                      "application/zip" }

IdleFilter ==
  [ pc |-> "idle", name |-> <<>>, mimetype |-> "", resolved |-> "",
    decoder |-> NoDecoder, error |-> <<>> ]

\* multer asks fileFilter about one file of the request
FileFilter(name, mimetype) ==
  /\ filter.pc = "idle"
  /\ filter' = [ filter EXCEPT !.name = name, !.mimetype = mimetype,
                   !.pc = IF FilterAccepts(name, mimetype) THEN "accepted"
                                                          ELSE "rejected" ]
  /\ UNCHANGED <<jobs, meetings, briefs, documents, analytics, req, inv, gen,
                 calendarEvents, cal, query, poller, home, parse, token>>

\* parseDocument(file.path, file.mimetype) on an accepted file; the decoder
\* chosen reads the file or throws
ParseDocument(readable) ==
  /\ filter.pc = "accepted"
  /\ LET resolvedMimeType == getMimeTypeFromPath(filter.name, filter.mimetype)
         decoder == Decoder(resolvedMimeType)
     IN  filter' =
           IF decoder = NoDecoder
             THEN [ filter EXCEPT !.pc = "thrown", !.resolved = resolvedMimeType,
                      !.error = <<"Failed to parse document",
                                  "Unsupported file type", resolvedMimeType>> ]
           ELSE IF readable
             THEN [ filter EXCEPT !.pc = "parsed", !.resolved = resolvedMimeType,
                      !.decoder = decoder ]
           ELSE [ filter EXCEPT !.pc = "thrown", !.resolved = resolvedMimeType,
                    !.decoder = decoder,
                    !.error = <<"Failed to parse document", decoder>> ]
  /\ UNCHANGED <<jobs, meetings, briefs, documents, analytics, req, inv, gen,
                 calendarEvents, cal, query, poller, home, parse, token>>

\* ------------------------------------------------------------------------
\* google-calendar.ts: the module-level connectionSettings and the calls of
\* getAccessToken. Times are whole numbers from 1; a call has one await, the
\* fetch from the connector, so calls overlap.
TokenCalls == 1..MaxTokenCalls

NoToken == ""        \* undefined, null or "": falsy
NoExpiry == 0        \* expires_at absent, null, "" or 0: falsy
InvalidDate == -1    \* an expires_at that `new Date` cannot read

\* `data.items?.[0]` of the connector's answer
NoSettings ==
  [ present |-> FALSE, access_token |-> NoToken, oauth_token |-> NoToken,
    expires_at |-> NoExpiry ]
Settings(access, oauth, exp) ==
  [ present |-> TRUE, access_token |-> access, oauth_token |-> oauth,
    expires_at |-> exp ]

ConnectorAnswers ==
  { NoSettings } \cup
  { Settings(a, o, e) : a \in {NoToken, "ya29.a"}, o \in {NoToken, "ya29.b"},
                        e \in {NoExpiry, InvalidDate} \cup (1..(MaxClock + 1)) }

\* ExpiresAfter that still takes the entry at the instant it expires
ExpiresAfter_OrAt(expires_at, now) ==
  expires_at # InvalidDate /\ expires_at >= now

\* `new Date(expires_at).getTime() > Date.now()`: NaN is greater than nothing
ExpiresAfter(expires_at, now) ==
  expires_at # InvalidDate /\ expires_at > now

\* the condition of the first `if`
CacheHit(cs, now) ==
  cs.present /\ cs.expires_at # NoExpiry /\ ExpiresAfter(cs.expires_at, now)

\* `settings.access_token || settings.oauth?.credentials?.access_token`
RefreshedToken(cs) ==
  IF cs.access_token # NoToken THEN cs.access_token ELSE cs.oauth_token

IdleCall ==
  [ pc |-> "idle", via |-> "none", result |-> NoToken, error |-> "none",
    fetched |-> NoSettings ]

IdleToken ==
  [ connectionSettings |-> NoSettings, now |-> 1, identity |-> TRUE,
    calls |-> [ c \in TokenCalls |-> IdleCall ] ]

\* getAccessToken up to its await: the cached token, the missing identity, or
\* the request to the connector
GetAccessToken(c) ==
  /\ token.calls[c].pc \in {"idle", "returned", "thrown"}
  /\ LET cs == token.connectionSettings
     IN  token' = [ token EXCEPT !.calls[c] =
           IF CacheHit(cs, token.now)
             THEN [ IdleCall EXCEPT !.pc = "returned", !.via = "cache",
                                    !.result = cs.access_token ]
           ELSE IF ~token.identity
             THEN [ IdleCall EXCEPT !.pc = "thrown",
                      !.error = "X_REPLIT_TOKEN not found for repl/depl" ]
           ELSE [ IdleCall EXCEPT !.pc = "fetching" ] ]
  /\ UNCHANGED <<jobs, meetings, briefs, documents, analytics, req, inv, gen,
                 calendarEvents, cal, query, poller, home, parse, filter>>

\* the connector answers: the answer's first item is assigned to
\* connectionSettings before the token is looked for in it
FetchResolves(c, answer) ==
  /\ token.calls[c].pc = "fetching"
  /\ LET accessToken == RefreshedToken(answer)
         call == [ token.calls[c] EXCEPT !.fetched = answer ]
     IN  token' = [ token EXCEPT
           !.connectionSettings = answer,
           !.calls[c] =
             IF ~answer.present
               THEN [ call EXCEPT !.pc = "thrown", !.error = "TypeError" ]
             ELSE IF accessToken = NoToken
               THEN [ call EXCEPT !.pc = "thrown",
                                  !.error = "Google Calendar not connected" ]
             ELSE [ call EXCEPT !.pc = "returned", !.via = "refresh",
                                !.result = accessToken ] ]
  /\ UNCHANGED <<jobs, meetings, briefs, documents, analytics, req, inv, gen,
                 calendarEvents, cal, query, poller, home, parse, filter>>

\* fetch or res.json() rejects: nothing is assigned
FetchRejects(c) ==
  /\ token.calls[c].pc = "fetching"
  /\ token' = [ token EXCEPT !.calls[c] =
       [ @ EXCEPT !.pc = "thrown", !.error = "fetch failed" ] ]
  /\ UNCHANGED <<jobs, meetings, briefs, documents, analytics, req, inv, gen,
                 calendarEvents, cal, query, poller, home, parse, filter>>

\* Date.now() moves on
ClockTick ==
  /\ token.now < MaxClock
  /\ token' = [ token EXCEPT !.now = @ + 1 ]
  /\ UNCHANGED <<jobs, meetings, briefs, documents, analytics, req, inv, gen,
                 calendarEvents, cal, query, poller, home, parse, filter>>

\* ------------------------------------------------------------------------
Init ==
  /\ filter = IdleFilter
  /\ token = IdleToken
  /\ jobs = <<>>
  /\ meetings = <<>>
  /\ briefs = <<>>
  /\ documents = <<>>
  /\ analytics = <<>>
  /\ req = [ s \in ReqSlots |-> IdleReq ]
  /\ inv = [ p \in Procs |-> IdleInv ]
  /\ gen = IdleGen
  /\ calendarEvents = <<>>
  /\ cal = [ c \in CalSlots |-> IdleCal ]
  /\ query = IdleQuery
  /\ poller = IdlePoller
  /\ home = IdleHome
  /\ parse = IdleParse

Next ==
  \/ \E s \in Reqs, files \in 0..MaxFiles, kind \in MetadataKinds,
        a \in AudienceLevels :
       \E ok \in SUBSET (1..files) : Receive(s, files, kind, ok, a)
  \/ \E s \in Reqs : CreateJobOk(s)
  \/ \E s \in Reqs : CreateJobThrows(s)
  \/ \E p \in Procs, j \in JobIds : Invoke(p, j)
  \/ \E p \in Procs : GetJob(p)
  \/ \E p \in Procs : MarkProcessing(p)
  \/ \E p \in Procs : Progress30(p)
  \/ \E p \in Procs, e \in ServiceErrors : CallRejected(p, e)
  \/ \E p \in Procs, c \in Contents : CallAnswered(p, c)
  \/ \E p \in Procs : Sleep(p)
  \/ \E p \in Procs : Progress70(p)
  \/ \E p \in Procs : CreateMeeting(p)
  \/ \E p \in Procs : CreateBrief(p)
  \/ \E p \in Procs : Progress85(p)
  \/ \E p \in Procs : CreateDocument(p)
  \/ \E p \in Procs : CreateAnalytic(p)
  \/ \E p \in Procs : Complete(p)
  \/ \E p \in Procs : StoreThrows(p)
  \/ \E p \in Procs : Catch(p)
  \/ \E p \in Procs : CatchThrows(p)

Spec == Init /\ [][Next]_vars

\* the continuation of processJob invocation p that is waiting runs: the call
\* it awaits (a store call, the generation service, the timer) settles, either
\* way
ProcessJobStep(p) ==
  \/ GetJob(p) \/ MarkProcessing(p) \/ Progress30(p)
  \/ \E e \in ServiceErrors : CallRejected(p, e)
  \/ \E c \in Contents : CallAnswered(p, c)
  \/ Sleep(p)
  \/ Progress70(p) \/ CreateMeeting(p) \/ CreateBrief(p) \/ Progress85(p)
  \/ CreateDocument(p) \/ CreateAnalytic(p) \/ Complete(p)
  \/ StoreThrows(p) \/ Catch(p) \/ CatchThrows(p)

\* Every job processed by the one processJob call its request triggers: Spec
\* without further calls of processJob
NextRun ==
  \/ \E s \in Reqs, files \in 0..MaxFiles, kind \in MetadataKinds,
        a \in AudienceLevels :
       \E ok \in SUBSET (1..files) : Receive(s, files, kind, ok, a)
  \/ \E s \in Reqs : CreateJobOk(s)
  \/ \E s \in Reqs : CreateJobThrows(s)
  \/ \E p \in Procs : GetJob(p)
  \/ \E p \in Procs : MarkProcessing(p)
  \/ \E p \in Procs : Progress30(p)
  \/ \E p \in Procs, e \in ServiceErrors : CallRejected(p, e)
  \/ \E p \in Procs, c \in Contents : CallAnswered(p, c)
  \/ \E p \in Procs : Sleep(p)
  \/ \E p \in Procs : Progress70(p)
  \/ \E p \in Procs : CreateMeeting(p)
  \/ \E p \in Procs : CreateBrief(p)
  \/ \E p \in Procs : Progress85(p)
  \/ \E p \in Procs : CreateDocument(p)
  \/ \E p \in Procs : CreateAnalytic(p)
  \/ \E p \in Procs : Complete(p)
  \/ \E p \in Procs : StoreThrows(p)
  \/ \E p \in Procs : Catch(p)
  \/ \E p \in Procs : CatchThrows(p)

SpecRun == Init /\ [][NextRun]_vars

\* Spec and SpecRun where every awaited call of processJob settles
SpecFair == Spec /\ \A p \in Procs : WF_vars(ProcessJobStep(p))
SpecRunFair == SpecRun /\ \A p \in Procs : WF_vars(ProcessJobStep(p))

\* generateBriefWithAI alone, on every input of the bounded sets: the audience
\* level and the uploaded file names are fixed at the call, the answer of the
\* service is drawn when it arrives
InitGen ==
  /\ filter = IdleFilter
  /\ token = IdleToken
  /\ jobs = <<>>
  /\ meetings = <<>>
  /\ briefs = <<>>
  /\ documents = <<>>
  /\ analytics = <<>>
  /\ req = [ s \in ReqSlots |-> IdleReq ]
  /\ inv = [ p \in Procs |-> IdleInv ]
  /\ gen \in { [ IdleGen EXCEPT !.pc = "callOpenAI", !.audienceLevel = a,
                                !.uploadedFilenames = u ] :
                a \in AudienceLevels, u \in UploadedNames }
  /\ calendarEvents = <<>>
  /\ cal = [ c \in CalSlots |-> IdleCal ]
  /\ query = IdleQuery
  /\ poller = IdlePoller
  /\ home = IdleHome
  /\ parse = IdleParse

NextGen ==
  \/ \E answer \in Answers : Generate(answer)
  \/ SaveBrief

SpecGen == InitGen /\ [][NextGen]_vars

\* The two submission handlers alone, each from its request to its response.
\* The store is as earlier requests left it: empty; an event whose earlier job
\* failed; an event whose earlier job completed and gave it its brief
FailedEarlier ==
  [ InsertedJob(NewJobValues(CalMetadata(NoEvent, "", ""), <<EventInfoTxt>>,
                             <<EventInfoTxt>>))
      EXCEPT !.status = "failed", !.error = StoreError, !.progress = 10 ]
CompletedEarlier ==
  [ InsertedJob(NewJobValues(CalMetadata(NoEvent, "", ""), <<EventInfoTxt>>,
                             <<EventInfoTxt>>))
      EXCEPT !.status = "completed", !.resultBriefId = 1, !.progress = 100 ]

InitUpload ==
  /\ filter = IdleFilter
  /\ token = IdleToken
  /\ req = [ s \in ReqSlots |-> IdleReq ]
  /\ inv = [ p \in Procs |-> IdleInv ]
  /\ gen = IdleGen
  /\ cal = [ c \in CalSlots |-> IdleCal ]
  /\ query = IdleQuery
  /\ poller = IdlePoller
  /\ home = IdleHome
  /\ parse = IdleParse
  /\ \/ /\ jobs = <<>> /\ meetings = <<>> /\ briefs = <<>>
        /\ documents = <<>> /\ analytics = <<>> /\ calendarEvents = <<>>
     \/ /\ jobs = <<FailedEarlier>> /\ meetings = <<>> /\ briefs = <<>>
        /\ documents = <<>> /\ analytics = <<>>
        /\ calendarEvents = <<EventRecord("e1", 7, NullId)>>
     \/ /\ jobs = <<CompletedEarlier>>
        /\ meetings = <<CalMetadata(NoEvent, "", "")>>
        /\ briefs = << [ meetingId |-> 1 ] >>
        /\ documents = << [ meetingId |-> 1, filename |-> EventInfoTxt ] >>
        /\ analytics = << [ briefId |-> 1, meetingId |-> 1 ] >>
        /\ calendarEvents = <<EventRecord("e1", 7, 1)>>

NextUpload ==
  \/ \E s \in Reqs, files \in 0..MaxFiles, kind \in MetadataKinds,
        a \in AudienceLevels :
       \E ok \in SUBSET (1..files) : Receive(s, files, kind, ok, a)
  \/ \E s \in Reqs : CreateJobOk(s)
  \/ \E s \in Reqs : CreateJobThrows(s)
  \/ \E c \in CalReqs, files \in 0..MaxFiles, e \in EventIds, force \in BOOLEAN,
        a \in {"", "ic"} : CalReceive(c, files, e, force, a)
  \/ \E c \in CalReqs, existing \in RecordIds \cup {NullId} :
       CalGetRecord(c, existing)
  \/ \E c \in CalReqs, event \in CalendarEvents, ok \in SUBSET (1..MaxFiles) :
       CalGetEvent(c, event, ok)
  \/ \E c \in CalReqs : CalCreateJob(c)
  \/ \E c \in CalReqs : CalSaveEvent(c)
  \/ \E c \in CalReqs : CalThrows(c)

SpecUpload == InitUpload /\ [][NextUpload]_vars

\* Jobs from their creation by either endpoint to the end of processJob: an
\* upload request with valid metadata and a calendar request for an event,
\* with any files, any of which may fail to parse, and any event; the service
\* answers at the first attempt
NextCreate ==
  \/ \E s \in Reqs, files \in 0..MaxFiles :
       \E ok \in SUBSET (1..files) : Receive(s, files, "valid", ok, "ic")
  \/ \E s \in Reqs : CreateJobOk(s)
  \/ \E c \in CalReqs, files \in 0..MaxFiles : CalReceive(c, files, "e1", FALSE, "")
  \/ \E c \in CalReqs, existing \in RecordIds \cup {NullId} :
       CalGetRecord(c, existing)
  \/ \E c \in CalReqs, event \in CalendarEvents, ok \in SUBSET (1..MaxFiles) :
       CalGetEvent(c, event, ok)
  \/ \E c \in CalReqs : CalCreateJob(c)
  \/ \E c \in CalReqs : CalSaveEvent(c)
  \/ \E p \in Procs : GetJob(p)
  \/ \E p \in Procs : MarkProcessing(p)
  \/ \E p \in Procs : Progress30(p)
  \/ \E p \in Procs, c \in {"nonjson", "valid"} : CallAnswered(p, c)
  \/ \E p \in Procs : Progress70(p)
  \/ \E p \in Procs : CreateMeeting(p)
  \/ \E p \in Procs : CreateBrief(p)
  \/ \E p \in Procs : Progress85(p)
  \/ \E p \in Procs : CreateDocument(p)
  \/ \E p \in Procs : CreateAnalytic(p)
  \/ \E p \in Procs : Complete(p)
  \/ \E p \in Procs : Catch(p)

SpecCreate == Init /\ [][NextCreate]_vars

\* Requests for one calendar event, each with the processJob it triggers and
\* the callback that follows it: no files, an event that has a description,
\* with or without `force`; the service answers at the first attempt, store
\* calls of processJob may fail
NextCal ==
  \/ \E c \in CalSlots, force \in BOOLEAN : CalReceive(c, 0, "e1", force, "")
  \/ \E c \in CalSlots, existing \in RecordIds \cup {NullId} :
       CalGetRecord(c, existing)
  \/ \E c \in CalSlots : CalGetEvent(c, [ found |-> TRUE, summary |-> 7,
                                          attendees |-> "A, B",
                                          description |-> TRUE ], {})
  \/ \E c \in CalSlots : CalCreateJob(c)
  \/ \E c \in CalSlots : CalSaveEvent(c)
  \/ \E p \in Procs : GetJob(p)
  \/ \E p \in Procs : MarkProcessing(p)
  \/ \E p \in Procs : Progress30(p)
  \/ \E p \in Procs, c \in {"nonjson", "valid"} : CallAnswered(p, c)
  \/ \E p \in Procs : Progress70(p)
  \/ \E p \in Procs : CreateMeeting(p)
  \/ \E p \in Procs : CreateBrief(p)
  \/ \E p \in Procs : Progress85(p)
  \/ \E p \in Procs : CreateDocument(p)
  \/ \E p \in Procs : CreateAnalytic(p)
  \/ \E p \in Procs : Complete(p)
  \/ \E p \in Procs : StoreThrows(p)
  \/ \E p \in Procs : Catch(p)
  \/ \E p \in Procs : CatchThrows(p)
  \/ \E c \in CalSlots : CalThen(c)
  \/ \E c \in CalSlots : CalThenGetJob(c)
  \/ \E c \in CalSlots, calEvent \in RecordIds \cup {NullId} :
       CalThenGetRecord(c, calEvent)
  \/ \E c \in CalSlots : CalThenUpdate(c)
  \/ \E c \in CalSlots : CalThenThrows(c)

SpecCal == Init /\ [][NextCal]_vars

\* The status query against the job pipeline: one upload request whose file
\* parses, its processJob and a further processJob call, a service that
\* answers at the first attempt, store calls that may fail -- and one status
\* query for any job id at any moment
NextQuery ==
  \/ \E s \in Reqs : Receive(s, 1, "valid", {1}, "ic")
  \/ \E s \in Reqs : CreateJobOk(s)
  \/ \E p \in Procs, j \in JobIds : Invoke(p, j)
  \/ \E p \in Procs : GetJob(p)
  \/ \E p \in Procs : MarkProcessing(p)
  \/ \E p \in Procs : Progress30(p)
  \/ \E p \in Procs, c \in {"nonjson", "valid"} : CallAnswered(p, c)
  \/ \E p \in Procs : Progress70(p)
  \/ \E p \in Procs : CreateMeeting(p)
  \/ \E p \in Procs : CreateBrief(p)
  \/ \E p \in Procs : Progress85(p)
  \/ \E p \in Procs : CreateDocument(p)
  \/ \E p \in Procs : CreateAnalytic(p)
  \/ \E p \in Procs : Complete(p)
  \/ \E p \in Procs : StoreThrows(p)
  \/ \E p \in Procs : Catch(p)
  \/ \E p \in Procs : CatchThrows(p)
  \/ \E id \in JobIds : QueryReceive(id)
  \/ QueryGetJob
  \/ QueryGetBrief
  \/ QueryThrows

SpecQuery == Init /\ [][NextQuery]_vars

\* SpecQuery where every awaited call of processJob settles; nothing obliges a
\* client to send a status query or the handler of one to go on
SpecQueryFair == SpecQuery /\ \A p \in Procs : WF_vars(ProcessJobStep(p))

\* ------------------------------------------------------------------------
\* The calendar page polling one job, whatever the status requests come back
\* with.
NextPoll ==
  \/ \E id \in JobIds : PollStart(id)
  \/ \E r \in PollReplies : PollReply(r)
  \/ PollTimer

SpecPoll == Init /\ [][NextPoll]_vars

\* a fetch settles and a timer fires
SpecPollFair ==
  SpecPoll /\ WF_vars(\E r \in PollReplies : PollReply(r)) /\ WF_vars(PollTimer)

\* ------------------------------------------------------------------------
\* parseDocument on every CSV file and every workbook within the bounds.
InitParse ==
  /\ filter = IdleFilter
  /\ token = IdleToken
  /\ jobs = <<>> /\ meetings = <<>> /\ briefs = <<>> /\ documents = <<>>
  /\ analytics = <<>> /\ calendarEvents = <<>>
  /\ req = [ s \in ReqSlots |-> IdleReq ]
  /\ inv = [ p \in Procs |-> IdleInv ]
  /\ gen = IdleGen
  /\ cal = [ c \in CalSlots |-> IdleCal ]
  /\ query = IdleQuery
  /\ poller = IdlePoller
  /\ home = IdleHome
  /\ \/ \E f \in CsvFiles :
          parse = [ IdleParse EXCEPT !.pc = "ready", !.type = "text/csv", !.input = f ]
     \/ \E w \in Workbooks :
          parse = [ IdleParse EXCEPT !.pc = "ready",
                                     !.type = "application/vnd.ms-excel", !.input = w ]

NextParse == ParseCSV \/ ParseExcel

SpecParse == InitParse /\ [][NextParse]_vars

\* ------------------------------------------------------------------------
\* Every file name and declared type within the sets, filtered and dispatched.
NextFilter ==
  \/ \E name \in UploadNames, mimetype \in DeclaredTypes : FileFilter(name, mimetype)
  \/ \E readable \in BOOLEAN : ParseDocument(readable)

SpecFilter == Init /\ [][NextFilter]_vars

\* ------------------------------------------------------------------------
\* getAccessToken called again and again while the clock moves on, with and
\* without REPL_IDENTITY / WEB_REPL_RENEWAL in the environment.
InitToken ==
  /\ jobs = <<>> /\ meetings = <<>> /\ briefs = <<>> /\ documents = <<>>
  /\ analytics = <<>> /\ calendarEvents = <<>>
  /\ req = [ s \in ReqSlots |-> IdleReq ]
  /\ inv = [ p \in Procs |-> IdleInv ]
  /\ gen = IdleGen
  /\ cal = [ c \in CalSlots |-> IdleCal ]
  /\ query = IdleQuery
  /\ poller = IdlePoller
  /\ home = IdleHome
  /\ parse = IdleParse
  /\ filter = IdleFilter
  /\ \E identity \in BOOLEAN : token = [ IdleToken EXCEPT !.identity = identity ]

NextToken ==
  \/ \E c \in TokenCalls : GetAccessToken(c)
  \/ \E c \in TokenCalls, answer \in ConnectorAnswers : FetchResolves(c, answer)
  \/ \E c \in TokenCalls : FetchRejects(c)
  \/ ClockTick

SpecToken == InitToken /\ [][NextToken]_vars

\* ------------------------------------------------------------------------
\* The home page with the server behind it: submissions from the form, the
\* jobs they start (the service answers at once, with a brief or with text
\* that is not JSON), the page's status requests, navigation away and back.
NextHome ==
  \/ HomeMount
  \/ HomeUnmount
  \/ HomeTick
  \/ \E id \in JobIds, live \in BOOLEAN, failed \in BOOLEAN :
       HomePollSettles(id, live, failed)
  \/ \E s \in ReqSlots : HomeGenerate(s)
  \/ \E s \in ReqSlots : HomeRequest(s)
  \/ \E s \in ReqSlots : HomeSubmitSettles(s)
  \/ HomeReset
  \/ \E s \in ReqSlots : CreateJobOk(s)
  \/ \E s \in ReqSlots : CreateJobThrows(s)
  \/ \E p \in Procs : GetJob(p)
  \/ \E p \in Procs : MarkProcessing(p)
  \/ \E p \in Procs : Progress30(p)
  \/ \E p \in Procs, c \in {"nonjson", "valid"} : CallAnswered(p, c)
  \/ \E p \in Procs : Progress70(p)
  \/ \E p \in Procs : CreateMeeting(p)
  \/ \E p \in Procs : CreateBrief(p)
  \/ \E p \in Procs : Progress85(p)
  \/ \E p \in Procs : CreateDocument(p)
  \/ \E p \in Procs : CreateAnalytic(p)
  \/ \E p \in Procs : Complete(p)
  \/ \E p \in Procs : Catch(p)

SpecHome == Init /\ [][NextHome]_vars

\* ------------------------------------------------------------------------
\* The home page against every answer GET /api/jobs/:id can give: the job in
\* each status, a completed job with the brief embedded and with `brief: null`
\* (getBrief found no row), and a response that is not ok.
HomeReplies ==
  { [ ok |-> FALSE, status |-> "none", brief |-> NullId ],
    [ ok |-> TRUE, status |-> "completed", brief |-> 1 ] } \cup
  { [ ok |-> TRUE, status |-> st, brief |-> NullId ] :
      st \in {"pending", "processing", "completed", "failed"} }

\* a status request for job id settles with answer r
HomePollAnswered(id, live, r) ==
  /\ IF live THEN home.mounted /\ home.polls[id] > 0 ELSE home.stale[id] > 0
  /\ LET h == [ home EXCEPT
                  !.polls[id] = IF live THEN @ - 1 ELSE @,
                  !.stale[id] = IF live THEN @ ELSE @ - 1,
                  !.last = [ op |-> "poll", id |-> id,
                             status |-> IF r.ok THEN r.status ELSE "error" ] ]
     IN  home' = IF live THEN Polled(h, r) ELSE PolledStale(h, r)
  /\ UNCHANGED <<jobs, meetings, briefs, documents, analytics, req, inv, gen,
                 calendarEvents, cal, query, poller, parse, filter, token>>

NextHomePoll ==
  \/ HomeMount
  \/ HomeUnmount
  \/ HomeTick
  \/ \E id \in JobIds, live \in BOOLEAN, r \in HomeReplies :
       HomePollAnswered(id, live, r)
  \/ \E s \in ReqSlots : HomeGenerate(s)
  \/ \E s \in ReqSlots : HomeRequest(s)
  \/ \E s \in ReqSlots : HomeSubmitSettles(s)
  \/ HomeReset
  \/ \E s \in ReqSlots : CreateJobOk(s)
  \/ \E s \in ReqSlots : CreateJobThrows(s)

SpecHomePoll == Init /\ [][NextHomePoll]_vars

\* ------------------------------------------------------------------------
\* processJob called again for a job that is no longer pending, or for an id
\* that no job has or comes to have: one upload, its own run, and further
\* calls of that kind.
InvokeOnSettled(p, jobId) ==
  /\ IF jobId \in DOMAIN jobs THEN jobs[jobId].status # "pending"
                              ELSE jobId > MaxSubmissions
  /\ Invoke(p, jobId)

NextReinvoke ==
  \/ \E s \in Reqs : Receive(s, 1, "valid", {1}, "ic")
  \/ \E s \in Reqs : CreateJobOk(s)
  \/ \E p \in Procs, j \in JobIds : InvokeOnSettled(p, j)
  \/ \E p \in Procs : GetJob(p)
  \/ \E p \in Procs : MarkProcessing(p)
  \/ \E p \in Procs : Progress30(p)
  \/ \E p \in Procs, c \in {"nonjson", "valid"} : CallAnswered(p, c)
  \/ \E p \in Procs : Progress70(p)
  \/ \E p \in Procs : CreateMeeting(p)
  \/ \E p \in Procs : CreateBrief(p)
  \/ \E p \in Procs : Progress85(p)
  \/ \E p \in Procs : CreateDocument(p)
  \/ \E p \in Procs : CreateAnalytic(p)
  \/ \E p \in Procs : Complete(p)
  \/ \E p \in Procs : StoreThrows(p)
  \/ \E p \in Procs : Catch(p)
  \/ \E p \in Procs : CatchThrows(p)

SpecReinvoke == Init /\ [][NextReinvoke]_vars

\* ------------------------------------------------------------------------
\* Properties
\* ------------------------------------------------------------------------
Terminal(status) == status \in {"completed", "failed"}

\* the invocation passed the guard: it holds the pending row it read
Entered(p) == inv[p].job.status # "undefined"

\* C1: for every job, pending or processing has neither resultBriefId nor
\* error; completed has resultBriefId and no error; failed has error and no
\* resultBriefId -- after any sequence of processJob calls and store failures.
C1_ResultXorError ==
  \A j \in DOMAIN jobs :
    /\ jobs[j].status \in {"pending", "processing"} =>
         jobs[j].resultBriefId = NullId /\ jobs[j].error = NullText
    /\ jobs[j].status = "completed" =>
         jobs[j].resultBriefId # NullId /\ jobs[j].error = NullText
    /\ jobs[j].status = "failed" =>
         jobs[j].error # NullText /\ jobs[j].resultBriefId = NullId

\* C2: the progress stored for a job never decreases while the job is not yet
\* completed or failed, whatever the interleaving of processJob calls on it.
C2_ProgressMonotonic ==
  [][ \A j \in DOMAIN jobs :
        ~Terminal(jobs[j].status) => jobs'[j].progress >= jobs[j].progress ]_vars

\* C3: two calls of processJob on one job id give one pipeline execution: at
\* most one of them passes the guard, calls the generation service, creates a
\* Meeting and creates a Brief.
C3_OnePipelinePerJob ==
  \A j \in JobIds :
    /\ Cardinality({ p \in Procs : inv[p].jobId = j /\ Entered(p) }) <= 1
    /\ Cardinality({ p \in Procs : inv[p].jobId = j /\ inv[p].genLog # <<>> }) <= 1
    /\ Cardinality({ p \in Procs : inv[p].jobId = j /\ inv[p].meeting # NullId }) <= 1
    /\ Cardinality({ p \in Procs : inv[p].jobId = j /\ inv[p].savedBrief # NullId }) <= 1

\* C4: once a job is completed or failed, no step changes its status, error
\* or resultBriefId.
C4_TerminalAbsorbing ==
  [][ \A j \in DOMAIN jobs :
        Terminal(jobs[j].status) =>
          /\ jobs'[j].status = jobs[j].status
          /\ jobs'[j].error = jobs[j].error
          /\ jobs'[j].resultBriefId = jobs[j].resultBriefId ]_vars

\* C5: a job is never left stuck in processing: a job whose status is
\* processing always has a processJob call still running its pipeline, which
\* ends by writing completed or failed.
C5_NeverStuckProcessing ==
  \A j \in DOMAIN jobs :
    jobs[j].status = "processing" =>
      \E p \in Procs : inv[p].jobId = j /\ Entered(p) /\ inv[p].pc # "done"

\* C6: no call of processJob ends with its promise rejected: every generation
\* or store failure raised inside it is absorbed by its catch block.
C6_NeverRejects ==
  \A p \in Procs : inv[p].result # "rejected"

\* the request passed validation and at least one of its files parsed
Accepted(s) ==
  /\ req[s].files > 0
  /\ req[s].metadataKind = "valid"
  /\ req[s].parsed # {}

\* the job rows, one per request answered with a job id
OneJobPerAnswer ==
  /\ Len(jobs) = Cardinality({ t \in Reqs : req[t].status = 200 })
  /\ \A t, u \in Reqs :
       t # u /\ req[t].jobId # NullId => req[u].jobId # req[t].jobId

\* the row createJob returned to request s
CreatedPending(s) ==
  /\ req[s].jobId \in DOMAIN jobs
  /\ req[s].job.status = "pending"
  /\ req[s].job.progress = 0
  /\ req[s].job.resultBriefId = NullId
  /\ req[s].job.error = NullText

\* C7 as stated: every finished submission with valid metadata and at least
\* one parsed file created exactly one job, pending with progress 0 and
\* without resultBriefId or error.
C7_EveryAcceptedCreatesJob ==
  /\ OneJobPerAnswer
  /\ \A s \in Reqs : req[s].pc = "done" /\ Accepted(s) => CreatedPending(s)

\* C7 amended: such a submission created exactly one job, pending with
\* progress 0 and without resultBriefId or error, unless createJob itself
\* failed; then no job exists for it and the answer is a 500.
C7_AcceptedCreatesJobUnlessStoreFails ==
  /\ OneJobPerAnswer
  /\ \A s \in Reqs :
       req[s].pc = "done" /\ Accepted(s) =>
         \/ req[s].status = 200 /\ CreatedPending(s)
         \/ req[s].status = 500 /\ req[s].jobId = NullId /\ ~req[s].triggered

\* a request of two files, one of which failed extraction, got its job
C7_Witness ==
  \E s \in Reqs :
    /\ req[s].pc = "done" /\ req[s].status = 200
    /\ req[s].files = 2 /\ Cardinality(req[s].parsed) = 1
    /\ CreatedPending(s)

\* the request is one the endpoint must reject
MustReject(s) ==
  \/ req[s].files = 0
  \/ req[s].metadataKind # "valid"
  \/ req[s].parsed = {}

\* C8: a submission with zero files, with missing, unparseable or invalid
\* metadata, or whose files all fail extraction is answered with a client
\* error (400); the step that rejects it leaves every table and every
\* processJob call as they were, no job row belongs to it and processJob is
\* not triggered for it.
C8_RejectedLeavesStoreUnchanged ==
  /\ [] \A s \in Reqs :
          req[s].pc # "idle" /\ MustReject(s) =>
            /\ req[s].pc = "done" /\ req[s].status = 400
            /\ req[s].jobId = NullId /\ ~req[s].triggered
            /\ inv[s].pc = "idle"
  /\ [] OneJobPerAnswer
  /\ [][ \A s \in Reqs :
           req[s].status # 400 /\ req'[s].status = 400 =>
             UNCHANGED <<jobs, meetings, briefs, documents, analytics, inv>> ]_vars

\* valid metadata, two files, both failing extraction: rejected, no job
C8_Witness ==
  \E s \in Reqs :
    /\ req[s].status = 400
    /\ req[s].files = 2 /\ req[s].metadataKind = "valid" /\ req[s].parsed = {}
    /\ req[s].error = <<"Failed to parse any documents">>
    /\ Len(jobs) = 0

\* the calls of the service in a log
Calls(log) == { i \in DOMAIN log : log[i].op = "call" }

\* the attempt failed in a way that is retried
Transient(out) ==
  \/ out.kind = "empty"
  \/ out.kind = "rejected" /\ ~out.auth

\* C9: one callOpenAIWithRetry makes at most 3 service calls; calls and sleeps
\* alternate strictly (call 1, sleep, call 2, sleep, call 3), the sleep after
\* the k-th failed attempt lasts 1000 * 2^(k-1) ms and is taken only after a
\* failed attempt; when the third attempt also fails transiently the error
\* raised reports failure after 3 attempts.
C9_RetrySchedule ==
  \A p \in Procs :
    LET log == inv[p].genLog
    IN  /\ Cardinality(Calls(log)) <= 3
        /\ \A i \in DOMAIN log :
             IF i % 2 = 1
               THEN log[i] = CallEntry((i + 1) \div 2)
               ELSE log[i] = SleepEntry(i \div 2, 1000 * Pow2((i \div 2) - 1))
        /\ inv[p].pc = "sleep" => inv[p].lastOut.kind \in {"rejected", "empty"}
        /\ inv[p].pc = "callOpenAI" => Len(log) = 2 * (inv[p].attempt - 1)
        /\ Cardinality(Calls(log)) = 3 /\ Transient(inv[p].lastOut) =>
             /\ inv[p].pc \in {"catch", "done"}
             /\ inv[p].caught =
                  <<"Failed to generate brief", "OpenAI API failed after", "3",
                    "attempts">> \o inv[p].lastOut.msg

\* three service calls were made, 1000 ms and 2000 ms apart, and the failure
\* after 3 attempts was raised
C9_Witness ==
  \E p \in Procs :
    /\ Len(inv[p].genLog) = 5
    /\ inv[p].genLog[2].ms = 1000 /\ inv[p].genLog[4].ms = 2000
    /\ Transient(inv[p].lastOut)
    /\ Includes(inv[p].caught, "authentication") = FALSE
    /\ inv[p].pc = "catch"

\* C10: after an attempt is refused for its credential, the invocation makes
\* no further service call and takes no sleep, and its job fails with the
\* authentication error message.
C10_AuthAbortsImmediately ==
  \A p \in Procs :
    inv[p].lastOut.kind = "rejected" /\ inv[p].lastOut.auth =>
      /\ inv[p].pc \in {"catch", "done"}
      /\ inv[p].caught =
           <<"Failed to generate brief", "OpenAI authentication failed">>
             \o inv[p].lastOut.msg
      /\ inv[p].pc = "done" =>
           /\ jobs[inv[p].jobId].status = "failed"
           /\ jobs[inv[p].jobId].error = inv[p].caught

\* the message reports that the retries were used up
MentionsExhausted(msg) == \E i \in DOMAIN msg : msg[i] = "OpenAI API failed after"

\* every service call of invocation p was answered with content that is not
\* JSON (the code makes no call after such an answer, so there is one)
OnlyMalformed(p) == inv[p].lastOut.kind = "nonjson" /\ Len(inv[p].genLog) = 1

C12_ShapeFailureFailsJob ==
  \A p \in Procs :
    inv[p].lastOut.kind \in {"nonjson", "badshape"} =>
      /\ inv[p].pc \in {"catch", "done"}
      /\ inv[p].pc = "done" => jobs[inv[p].jobId].status = "failed"

\* generateBriefWithAI has returned a brief
GenReturned == gen.pc \in {"returned", "saved"}

\* the source entries the service supplied (none unless `sources` was a list)
Supplied ==
  IF gen.answer.brief.sources.kind = "array"
    THEN gen.answer.brief.sources.items ELSE <<>>

\* the entry names the file, whatever the case of the letters
Names(entry, filename) ==
  entry.filename # Undefined /\ toLowerCase(entry.filename) = toLowerCase(filename)

\* C13: in every brief returned, each uploaded file name is named (whatever
\* the case) by an entry of sources, whether the service's answer had no
\* sources, something that is not a list, or a list naming some of the files
\* in another case; the entries the service supplied are kept, in order, at
\* the front, and what follows is one "Referenced document" entry for each
\* uploaded name the supplied entries do not name -- never one for a name they
\* do name. The row stored carries the same sources.
C13_SourcesCoverUploads ==
  GenReturned =>
    LET out == gen.brief.sources
        given == Supplied
        up == gen.uploadedFilenames
        Unnamed(f) == ~\E m \in DOMAIN given : Names(given[m], f)
        added == SelectSeq(up, Unnamed)
    IN  /\ \A i \in DOMAIN up : \E k \in DOMAIN out : Names(out[k], up[i])
        /\ Len(out) = Len(given) + Len(added)
        /\ \A k \in DOMAIN given : out[k] = given[k]
        /\ \A k \in DOMAIN added :
             /\ out[Len(given) + k] =
                  [ label |-> "Referenced document", filename |-> added[k],
                    section |-> "null" ]
             /\ ~\E m \in DOMAIN given : Names(given[m], out[Len(given) + k].filename)
        /\ \A b \in DOMAIN briefs : briefs[b].sources = out

\* a.txt and b.pdf uploaded, the service named only A.TXT: its entry is kept
\* and b.pdf alone got a "Referenced document" entry
C13_Witness ==
  /\ GenReturned
  /\ gen.uploadedFilenames = <<"a.txt", "b.pdf">>
  /\ Len(Supplied) = 1 /\ Supplied[1].filename = "A.TXT"
  /\ Len(gen.brief.sources) = 2
  /\ gen.brief.sources[1].label = "Summary"
  /\ gen.brief.sources[2].filename = "b.pdf"

\* C14: every brief returned, and every brief row stored, has a wordCount of
\* at most 350, the count taken over goal, context, options, risksTradeoffs,
\* decisions and actionChecklist after the truncation.
C14_WordCountWithinBudget ==
  /\ GenReturned =>
       /\ gen.brief.wordCount = calculateWordCount(gen.brief)
       /\ gen.brief.wordCount <= 350
  /\ \A b \in DOMAIN briefs : briefs[b].wordCount <= 350

\* the answer of the service counts more than 350 words
OverBudget == calculateWordCount(gen.answer.brief) > 350

\* C15 as stated: whenever the answer exceeds 350 words, the context returned
\* is strictly shorter than the context of the answer.
C15_TruncationShortensContext ==
  GenReturned /\ OverBudget =>
    Len(gen.brief.context) < Len(gen.answer.brief.context)

\* C15 amended: whenever the answer exceeds 350 words and has at least two
\* context bullets, the context returned is strictly shorter and not empty;
\* with one bullet or none the context is returned as it was and the brief
\* returned still counts more than 350 words.
C15_TruncationShortensLongContext ==
  GenReturned /\ OverBudget =>
    LET n == Len(gen.answer.brief.context)
        k == Len(gen.brief.context)
    IN  /\ n >= 2 => 1 <= k /\ k < n
        /\ n <= 1 =>
             /\ gen.brief.context = gen.answer.brief.context
             /\ gen.brief.wordCount > 350

\* three bullets, over budget: two are returned
C15_Witness ==
  /\ GenReturned /\ OverBudget
  /\ Len(gen.answer.brief.context) = 3
  /\ Len(gen.brief.context) = 2

\* the brief as it was before the truncation, its context cut to m bullets
CutTo(m) == [ gen.sourced EXCEPT !.context = SubSeq(@, 1, m) ]

\* C16: the truncation only drops bullets from the end of context: what is
\* returned is a prefix of the context it started from; every bullet dropped
\* was dropped while the count was above 350 (none more than needed); it stops
\* as soon as the count is at most 350 or one bullet is left, so a context
\* that was not empty is never returned empty; goal, options, risksTradeoffs,
\* decisions, actionChecklist and sources are returned as they were.
C16_TruncationIsMinimal ==
  GenReturned =>
    LET before == gen.sourced
        after == gen.brief
        n == Len(before.context)
        k == Len(after.context)
    IN  /\ k <= n
        /\ after.context = SubSeq(before.context, 1, k)
        /\ \A m \in (k + 1)..n : calculateWordCount(CutTo(m)) > 350
        /\ calculateWordCount(CutTo(k)) <= 350 \/ k <= 1
        /\ n >= 1 => k >= 1
        /\ after.goal = before.goal
        /\ after.options = before.options
        /\ after.risksTradeoffs = before.risksTradeoffs
        /\ after.decisions = before.decisions
        /\ after.actionChecklist = before.actionChecklist
        /\ after.sources = before.sources

\* four bullets, the last two dropped, and the count then within the budget
\* with the two that are left
C16_Witness ==
  /\ GenReturned
  /\ Len(gen.sourced.context) = 4
  /\ Len(gen.brief.context) = 2
  /\ gen.brief.wordCount <= 350
  /\ calculateWordCount(CutTo(3)) > 350

\* C17: every brief row stored has at most as many context bullets as the
\* audience level of its job allows: 3 for exec, 5 for ic.
C17_ContextWithinCap ==
  \A b \in DOMAIN briefs :
    Len(briefs[b].context) <=
      (IF meetings[briefs[b].meetingId].audienceLevel = "exec" THEN 3 ELSE 5)

\* C18: when a submission handler has finished -- a client-error answer, all
\* files failing extraction, an answer that names an existing brief, success,
\* or an exception answered 500 -- every file uploaded with the request has
\* been passed to cleanupFile, in the upload endpoint and in the calendar
\* endpoint alike.
C18_UploadsCleanedOnEveryExit ==
  /\ \A s \in Reqs : req[s].pc = "done" => req[s].cleaned = req[s].files
  /\ \A c \in CalReqs : cal[c].pc = "done" => cal[c].cleaned = cal[c].files

\* an upload request of two files ended in the 500 of a failed createJob, and
\* a calendar request of two files in the 500 of an exception raised after
\* its job was created: both with their two files cleaned up
C18_Witness ==
  /\ \E s \in Reqs :
       req[s].pc = "done" /\ req[s].status = 500 /\ req[s].files = 2
       /\ req[s].cleaned = 2
  /\ \E c \in CalReqs :
       cal[c].pc = "done" /\ cal[c].status = 500 /\ cal[c].jobId # NullId
       /\ cal[c].files = 2 /\ cal[c].cleaned = 2

\* the response with the job id has been sent to request s
Responded(s) == req[s].status = 200 /\ req[s].jobId # NullId

Answered == query.pc = "done" /\ query.status = 200

C20_StatusQueryAnswer ==
  /\ [](Answered =>
          /\ query.view.id = query.jobId
          /\ query.view.status = query.job.status
          /\ query.view.progress = query.job.progress
          /\ query.view.error = query.job.error
          /\ query.view.resultBriefId = query.job.resultBriefId
          /\ (query.brief # NullId) <=> (query.view.status = "completed")
          /\ query.view.status = "completed" =>
               /\ query.brief = query.view.resultBriefId
               /\ query.brief \in DOMAIN briefs
          /\ query.view.status \in {"pending", "processing", "failed"} =>
               query.brief = NullId)
  /\ [][query.pc = "getJob" /\ query'.pc \in {"getBrief", "done"}
          /\ query'.status # 500
        => /\ query.jobId \in DOMAIN jobs <=> query'.status # 404
           /\ query'.job = getJob(query.jobId)]_vars

\* a completed job was queried and the answer embeds the brief that its
\* resultBriefId names
C20_Witness ==
  /\ Answered
  /\ query.view.status = "completed"
  /\ query.view.progress = 100
  /\ query.brief # NullId
  /\ query.brief = query.view.resultBriefId

\* ------------------------------------------------------------------------
\* C21: a step of a status query changes no table and no processJob
\* invocation, and every job, whether or not a status query is ever sent or
\* finished, eventually has status completed or failed.
Finished(j) == j \in DOMAIN jobs /\ Terminal(jobs[j].status)

C21_PollingReadOnlyJobsFinish ==
  /\ [][query' # query =>
          UNCHANGED <<jobs, meetings, briefs, documents, analytics, req, inv>>]_vars
  /\ \A j \in JobIds : [](j \in DOMAIN jobs => <>Finished(j))

\* the half of C21 about the status query alone
C21_QueryChangesNothing ==
  [][query' # query =>
       UNCHANGED <<jobs, meetings, briefs, documents, analytics, req, inv>>]_vars

\* ------------------------------------------------------------------------
\* C22: for every job, the processJob invocations for it create at most one
\* meeting row and at most one brief row between them, and a completed job
\* has exactly one of each.
MeetingsFor(j) == { inv[p].meeting : p \in { q \in Procs : inv[q].jobId = j } } \ {NullId}
BriefsFor(j) == { inv[p].savedBrief : p \in { q \in Procs : inv[q].jobId = j } } \ {NullId}

C22_OneMeetingOneBriefPerJob ==
  \A j \in DOMAIN jobs :
    /\ Cardinality(MeetingsFor(j)) <= 1
    /\ Cardinality(BriefsFor(j)) <= 1
    /\ jobs[j].status = "completed" =>
         Cardinality(MeetingsFor(j)) = 1 /\ Cardinality(BriefsFor(j)) = 1

\* ------------------------------------------------------------------------
\* C23: among the requests to the calendar endpoint for one event that do not
\* set `force`, at most one ever creates a job (every request of SpecCal is
\* for the event "e1" of the calendar "primary").
CreatedJobUnforced == { c \in CalSlots : ~cal[c].force /\ cal[c].jobId # NullId }

C23_OneJobPerEventWithoutForce == Cardinality(CreatedJobUnforced) <= 1

\* ------------------------------------------------------------------------
\* C28: a step that changes the row of job j is a step of a processJob
\* invocation for j and of no other invocation; no step removes a job or
\* changes an existing meeting, brief, document or analytic row; and when the
\* one invocation for a job has returned, the job is completed with the brief
\* that invocation stored, or failed with the error that invocation caught,
\* whatever the invocations for other jobs did meanwhile.
KeptRows(old, new) == Len(new) >= Len(old) /\ \A i \in DOMAIN old : new[i] = old[i]

OwnOutcome(p) ==
  LET j == inv[p].jobId
  IN  inv[p].pc = "done" /\ inv[p].result = "returned" /\ Entered(p) =>
        IF inv[p].caught = NullText
          THEN /\ jobs[j].status = "completed"
               /\ jobs[j].progress = 100
               /\ jobs[j].resultBriefId = inv[p].savedBrief
               /\ jobs[j].error = NullText
          ELSE /\ jobs[j].status = "failed"
               /\ jobs[j].error = inv[p].caught
               /\ jobs[j].resultBriefId = NullId

C28_JobsIndependent ==
  /\ [] \A p \in Procs : OwnOutcome(p)
  /\ [][ /\ Len(jobs') >= Len(jobs)
         /\ \A j \in DOMAIN jobs :
              jobs'[j] # jobs[j] =>
                \E p \in Procs :
                  /\ inv[p].jobId = j
                  /\ inv'[p] # inv[p]
                  /\ \A q \in Procs \ {p} : inv'[q] = inv[q]
         /\ KeptRows(meetings, meetings') /\ KeptRows(briefs, briefs')
         /\ KeptRows(documents, documents') /\ KeptRows(analytics, analytics') ]_vars

\* two jobs were processed to the end; one is completed, the other failed
C28_Witness ==
  /\ Len(jobs) = 2
  /\ \A c \in CalSlots : cal[c].jobId # NullId /\ inv[CalProc(c)].pc = "done"
  /\ \E j, k \in DOMAIN jobs :
       jobs[j].status = "completed" /\ jobs[k].status = "failed"

\* ------------------------------------------------------------------------
\* C29: a valid answer of the generation service comes at the third attempt
\* at the latest, and once an invocation has received one, its job eventually
\* is completed with progress 100 and resultBriefId the id of the brief row
\* that invocation stored -- unless a store call of the invocation failed.
Completed(p) ==
  LET j == inv[p].jobId
  IN  /\ j \in DOMAIN jobs
      /\ jobs[j].status = "completed"
      /\ jobs[j].progress = 100
      /\ jobs[j].resultBriefId = inv[p].savedBrief
      /\ inv[p].savedBrief \in DOMAIN briefs

GotValid(p) == inv[p].lastOut.kind = "valid"

\* callOpenAIWithRetry has just returned the valid answer
ValidReturned(p) == GotValid(p) /\ inv[p].pc = "progress70"

ProgressSteps == { <<0, 10>>, <<10, 30>>, <<30, 70>>, <<70, 85>>, <<85, 100>> }

DocumentsOf(m) == { i \in DOMAIN documents : documents[i].meetingId = m }
AnalyticsOf(b) == { i \in DOMAIN analytics : analytics[i].briefId = b }

InOrder(p) ==
  LET j == inv[p].jobId
      row == jobs[j]
      m == inv[p].meeting
      b == inv[p].savedBrief
  IN  /\ row.progress \in {0, 10, 30, 70, 85, 100}
      /\ row.status = "pending" => row.progress = 0
      /\ row.status = "completed" => row.progress = 100
      /\ row.status = "processing" => row.progress \in {10, 30, 70, 85}
      /\ inv[p].genLog # <<>> => row.progress >= 30
      /\ row.progress >= 70 => GotValid(p)
      /\ m # NullId => row.progress >= 70 /\ m \in DOMAIN meetings
      /\ b # NullId => m # NullId /\ b \in DOMAIN briefs /\ briefs[b].meetingId = m
      /\ row.progress >= 85 => b # NullId
      /\ DocumentsOf(m) # {} => row.progress >= 85
      /\ AnalyticsOf(b) # {} =>
           Cardinality(DocumentsOf(m)) = Len(row.documentFiles)
      /\ row.status = "completed" =>
           /\ Cardinality(AnalyticsOf(b)) = 1
           /\ row.resultBriefId = b
           /\ inv[p].caught = NullText

C30_WritesInOrder ==
  /\ [] \A p \in Procs : inv[p].jobId \in DOMAIN jobs => InOrder(p)
  /\ [][ \A p \in Procs :
           inv[p].jobId \in DOMAIN jobs =>
             LET j == inv[p].jobId
             IN  /\ jobs'[j].progress # jobs[j].progress =>
                      <<jobs[j].progress, jobs'[j].progress>> \in ProgressSteps
                 /\ inv[p].caught # NullText =>
                      /\ inv'[p].meeting = inv[p].meeting
                      /\ inv'[p].savedBrief = inv[p].savedBrief
                      /\ DocumentsOf(inv[p].meeting)' = DocumentsOf(inv[p].meeting)
                      /\ AnalyticsOf(inv[p].savedBrief)' = AnalyticsOf(inv[p].savedBrief)
                      /\ inv'[p].genLog = inv[p].genLog
                      /\ jobs'[j].progress = jobs[j].progress
                      /\ jobs'[j].resultBriefId = jobs[j].resultBriefId
                      /\ jobs'[j].status \in {jobs[j].status, "failed"} ]_vars

\* a run went through every step for a job of two files: meeting, brief, two
\* documents, analytic, completed
C30_Witness ==
  \E p \in Procs :
    /\ inv[p].pc = "done"
    /\ inv[p].jobId \in DOMAIN jobs
    /\ jobs[inv[p].jobId].status = "completed"
    /\ Len(jobs[inv[p].jobId].documentFiles) = 2
    /\ Cardinality(DocumentsOf(inv[p].meeting)) = 2
    /\ Cardinality(AnalyticsOf(inv[p].savedBrief)) = 1

\* ------------------------------------------------------------------------
\* C26: every job row has at least one document in documentContents, from
\* its creation on; the row created holds the documents and the metadata the
\* handler built, and no later step changes either; and the job of a calendar
\* request holds event_info.txt exactly when none of the uploaded files
\* parsed and the event has no description (it is then the only document).
Holds(docs, name) == \E i \in DOMAIN docs : docs[i] = name

C26_DocumentsFixedAtCreation ==
  /\ [] /\ \A j \in DOMAIN jobs : Len(jobs[j].documentContents) >= 1
        /\ \A s \in Reqs :
             req[s].jobId # NullId =>
               /\ jobs[req[s].jobId].documentContents =
                    ParsedInOrder(1, req[s].files, req[s].parsed)
               /\ jobs[req[s].jobId].metadata = req[s].metadata
        /\ \A c \in CalSlots :
             cal[c].jobId # NullId =>
               LET docs == jobs[cal[c].jobId].documentContents
                   none == cal[c].parsed = {} /\ ~cal[c].event.description
               IN  /\ docs = cal[c].documentContents
                   /\ jobs[cal[c].jobId].metadata = cal[c].metadata
                   /\ Holds(docs, EventInfoTxt) <=> none
                   /\ none => docs = <<EventInfoTxt>>
                   /\ \A i \in cal[c].parsed : Holds(docs, i)
                   /\ Holds(docs, EventDescriptionTxt) <=> cal[c].event.description
  /\ [][ /\ Len(jobs') >= Len(jobs)
         /\ \A j \in DOMAIN jobs :
              /\ jobs'[j].documentContents = jobs[j].documentContents
              /\ jobs'[j].metadata = jobs[j].metadata ]_vars

\* a calendar request uploaded files of which none parsed, for an event
\* without description: its job has event_info.txt alone and was processed
\* to completion with it
C26_Witness ==
  \E c \in CalSlots :
    /\ cal[c].jobId # NullId
    /\ cal[c].files > 0
    /\ jobs[cal[c].jobId].documentContents = <<EventInfoTxt>>
    /\ jobs[cal[c].jobId].status = "completed"

\* ------------------------------------------------------------------------
\* C24: pollForCompletion sends at most MAX_ATTEMPTS status requests for a
\* job; once a response was dealt with it has stopped exactly when the
\* response showed completed with a brief id, or failed, or when it was the
\* answer to request number MAX_ATTEMPTS, and in this last case the outcome
\* is a timeout after a response and a connection error after a failed
\* request; a wait is at most 5 s after a response and at most 10 s after a
\* failed request; and once started it stops.
StopsPolling(r) ==
  r.ok /\ ((r.status = "completed" /\ r.brief # NullId) \/ r.status = "failed")

PollerBounded ==
  /\ poller.attempts <= MAX_ATTEMPTS
  /\ poller.pc \in {"waiting", "stopped"} =>
        /\ poller.pc = "stopped" <=>
              (StopsPolling(poller.reply) \/ poller.attempts = MAX_ATTEMPTS)
        /\ poller.pc = "stopped" /\ ~StopsPolling(poller.reply) =>
              poller.outcome = IF poller.reply.ok THEN "timeout" ELSE "connection"
        /\ StopsPolling(poller.reply) =>
              poller.outcome =
                IF poller.reply.status = "failed" THEN "failed" ELSE "navigated"
  /\ poller.pc = "waiting" =>
        /\ poller.after = "ok" <=> poller.reply.ok
        /\ poller.after = "error" <=> ~poller.reply.ok
        /\ poller.after = "ok" => poller.delay <= Ms(5000)
        /\ poller.after = "error" => poller.delay <= Ms(10000)

C24_PollingTerminates ==
  /\ []PollerBounded
  /\ (poller.pc # "idle") ~> (poller.pc = "stopped")

\* the sixtieth request was answered with a job still processing, after waits
\* that had reached the cap
C24_Witness ==
  /\ poller.pc = "stopped"
  /\ poller.attempts = MAX_ATTEMPTS
  /\ poller.outcome = "timeout"

\* a wait at the cap after a failed request
C24_WaitAtCap ==
  poller.pc = "waiting" /\ poller.after = "error" /\ poller.delay = Ms(10000)

\* ------------------------------------------------------------------------
\* C27: in the text parseCSV and parseExcel return, the line "Row i:" of
\* every data row is followed by one "header: value" line for each header
\* column at which the row has a cell, in column order and with the cell's
\* value as text, whether that value is 0, false, the empty string or
\* anything else, and then by the empty line: a header's line is missing
\* only when the row ends before that column.
\* the headers and data rows of each table read (sheet 0 is a CSV file)
TablesRead ==
  IF parse.type = "text/csv"
    THEN { [ sheet |-> 0, headers |-> CsvHeaders(parse.input[1]),
             rows |-> CsvDataRows(parse.input) ] : x \in {1} \cap DOMAIN parse.input }
    ELSE { [ sheet |-> s, headers |-> ExcelHeaders(parse.input[s][1]),
             rows |-> ExcelRows(parse.input[s]) ] :
           s \in { t \in DOMAIN parse.input : Len(parse.input[t]) > 0 } }

\* the last line of kind k before line p: its number n, or 0
LastBefore(text, p, k) ==
  LET Q == { q \in 1..(p - 1) : text[q].k = k }
  IN  IF Q = {} THEN 0 ELSE text[CHOOSE q \in Q : \A r \in Q : r <= q].n

\* where the line "Row i:" of sheet s is, or 0
RowAt(text, s, i) ==
  LET Q == { q \in DOMAIN text :
               text[q].k = "row" /\ text[q].n = i /\ LastBefore(text, q, "sheet") = s }
  IN  IF Cardinality(Q) = 1 THEN CHOOSE q \in Q : TRUE ELSE 0

C27_FalsyCellsKept ==
  parse.pc = "done" =>
    \A tb \in TablesRead : \A i \in 1..Len(tb.rows) :
      LET q == RowAt(parse.text, tb.sheet, i)
          row == tb.rows[i]
          n == IF Len(row) < Len(tb.headers) THEN Len(row) ELSE Len(tb.headers)
      IN  /\ q # 0
          /\ \A c \in 1..n :
                parse.text[q + c] =
                  Line("cell", 0, <<tb.headers[c]>>, Template(row[c]))
          /\ parse.text[q + n + 1].k = "blank"

\* a sheet with the headers Owner and Column 2 and a data row of 0 and false
C27_Witness ==
  /\ parse.pc = "done"
  /\ parse.type = "application/vnd.ms-excel"
  /\ \E s \in DOMAIN parse.input :
       parse.input[s] = << <<StrCell("Owner"), StrCell("")>>,
                           <<NumCell(0), BoolCell(FALSE)>> >>

\* a CSV record with an empty string under a header and no cell under the next
C27_ShortRow ==
  /\ parse.pc = "done"
  /\ parse.type = "text/csv"
  /\ parse.input = << <<StrCell("Owner"), StrCell("false")>>, <<StrCell("")>> >>

\* ------------------------------------------------------------------------
\* C25: a step removes the stored job id or the stored metadata only if it
\* is the explicit reset or the settling of a status request for the stored
\* job that showed that job completed or failed; unmounting leaves both
\* entries as they are; and mounting with both entries present sets the
\* page polling the stored job id, a status request for it sent.
StoredCleared ==
  \/ home.storedJobId # NullId /\ home'.storedJobId = NullId
  \/ home.storedMetadata # NullId /\ home'.storedMetadata = NullId

ClearedByPollOrReset ==
  StoredCleared =>
    \/ home'.last.op = "reset"
    \/ /\ home'.last.op = "poll"
       /\ home'.last.id = home.storedJobId
       /\ Terminal(home'.last.status)

UnmountKeepsStored ==
  home.mounted /\ ~home'.mounted =>
    /\ home'.storedJobId = home.storedJobId
    /\ home'.storedMetadata = home.storedMetadata

MountResumes ==
  ~home.mounted /\ home'.mounted
    /\ home.storedJobId # NullId /\ home.storedMetadata # NullId =>
      /\ home'.jobId = home.storedJobId
      /\ home'.isPolling
      /\ home'.polls[home.storedJobId] > 0

C25_StoredJobStateKept ==
  [][ClearedByPollOrReset /\ UnmountKeepsStored /\ MountResumes]_vars

\* the parts of C25 about unmounting and mounting alone
C25_UnmountAndMount == [][UnmountKeepsStored /\ MountResumes]_vars

\* the part of C25 about clearing, for a status request of whatever job
C25_ClearedByAnyPollOrReset ==
  [][StoredCleared =>
       \/ home'.last.op = "reset"
       \/ home'.last.op = "poll" /\ Terminal(home'.last.status)]_vars

\* the page resumed a stored job after being away
C25_Resumed ==
  /\ home.last.op = "mount"
  /\ home.isPolling
  /\ home.jobId = home.storedJobId
  /\ home.jobId # NullId

\* ------------------------------------------------------------------------
\* C31: a job with status completed has a resultBriefId that is the id of a
\* brief row; that row's meetingId is the id of a meeting row with the job's
\* title, attendees, meetingType and audienceLevel; an analytic row refers to
\* that brief and that meeting; and the meeting has one document row per
\* entry of the job's documentFiles, with that entry's filename.
Backed(j) ==
  LET b == jobs[j].resultBriefId
      m == IF b \in DOMAIN briefs THEN briefs[b].meetingId ELSE NullId
  IN  /\ b \in DOMAIN briefs
      /\ m \in DOMAIN meetings
      /\ meetings[m] = jobs[j].metadata
      /\ \E a \in DOMAIN analytics :
           analytics[a].briefId = b /\ analytics[a].meetingId = m
      /\ Cardinality(DocumentsOf(m)) = Len(jobs[j].documentFiles)
      /\ \A i \in DOMAIN jobs[j].documentFiles :
           \E d \in DocumentsOf(m) :
             documents[d].filename = jobs[j].documentFiles[i]

C31_CompletedJobBacked ==
  \A j \in DOMAIN jobs : jobs[j].status = "completed" => Backed(j)

\* a job of two files completed
C31_Witness ==
  \E j \in DOMAIN jobs :
    /\ jobs[j].status = "completed"
    /\ Len(jobs[j].documentFiles) = 2
    /\ Cardinality(DocumentsOf(briefs[jobs[j].resultBriefId].meetingId)) = 2

\* ------------------------------------------------------------------------
\* C32: a processJob call made for an id that no job has, or for a job that
\* is processing, completed or failed when the call is made, changes no row
\* of any table and calls the generation service not once, whatever its
\* steps are.
C32_SettledJobUntouched ==
  [][ \A p \in Reinvokers :
        inv'[p] # inv[p] =>
          /\ UNCHANGED <<jobs, meetings, briefs, documents, analytics>>
          /\ inv'[p].genLog = <<>> ]_vars

\* the part of C32 where getJob resolves: such a call returns from the guard
C32_GuardReturns ==
  \A p \in Reinvokers :
    /\ inv[p].pc \in {"idle", "getJob", "catch", "done"}
    /\ inv[p].genLog = <<>>
    /\ inv[p].pc = "catch" => ~Entered(p)

\* ------------------------------------------------------------------------
\* C33: the catch block's write changes, in the job's row, the status (to
\* failed) and the error and nothing else: progress, resultBriefId, metadata,
\* documentContents and documentFiles stay as they were; no meeting row and
\* no brief row is removed or changed; and the failed job refers to no
\* brief.
CatchWrote(p) ==
  inv[p].pc = "catch" /\ inv'[p].pc = "done" /\ inv'[p].result = "returned"

OnlyStatusAndError(j) ==
  /\ jobs'[j].status = "failed"
  /\ \A col \in DOMAIN jobs[j] \ {"status", "error"} : jobs'[j][col] = jobs[j][col]
  /\ \A k \in DOMAIN jobs \ {j} : jobs'[k] = jobs[k]
  /\ \A m \in DOMAIN meetings : m \in DOMAIN meetings' /\ meetings'[m] = meetings[m]
  /\ \A b \in DOMAIN briefs : b \in DOMAIN briefs' /\ briefs'[b] = briefs[b]

C33_FailureWritesStatusAndError ==
  [][ \A p \in Procs :
        CatchWrote(p) /\ inv[p].jobId \in DOMAIN jobs =>
          /\ OnlyStatusAndError(inv[p].jobId)
          /\ jobs'[inv[p].jobId].resultBriefId = NullId ]_vars

\* the part of C33 about what the write leaves alone
C33_FrameOfFailure ==
  [][ \A p \in Procs :
        CatchWrote(p) /\ inv[p].jobId \in DOMAIN jobs =>
          OnlyStatusAndError(inv[p].jobId) ]_vars

\* a run failed after it had created its meeting and its brief
C33_Witness ==
  \E p \in Procs :
    /\ inv[p].pc = "done" /\ inv[p].caught # NullText
    /\ inv[p].savedBrief \in DOMAIN briefs
    /\ inv[p].jobId \in DOMAIN jobs
    /\ jobs[inv[p].jobId].status = "failed"
    /\ jobs[inv[p].jobId].progress = 85

\* ---------------------------------------------------------------------------
\* C34: an answer without content is a failed attempt like a rejected call. It
\* is logged as one of the MAX_RETRIES calls; while attempts remain the loop
\* sleeps and calls again with the next attempt number, and processJob's catch
\* is not entered; only the last attempt's failure is thrown, as exhaustion.
AnsweredEmpty(p) ==
  /\ inv[p].pc = "callOpenAI"
  /\ inv'[p] # inv[p]
  /\ inv'[p].lastOut.kind = "empty"

C34_NoContentIsRetried ==
  [][\A p \in Procs :
       /\ AnsweredEmpty(p) =>
            /\ inv'[p].genLog = Append(inv[p].genLog, CallEntry(inv[p].attempt))
            /\ inv'[p].lastOut.msg = <<"No content in OpenAI response">>
            /\ IF inv[p].attempt < 3
                 THEN /\ inv'[p].pc = "sleep"
                      /\ inv'[p].attempt = inv[p].attempt
                      /\ inv'[p].caught = inv[p].caught
                 ELSE /\ inv'[p].pc = "catch"
                      /\ inv'[p].caught =
                           <<"Failed to generate brief", "OpenAI API failed after",
                             "3", "attempts", "No content in OpenAI response">>
       /\ inv[p].pc = "sleep" /\ inv'[p] # inv[p] =>
            /\ inv'[p].pc = "callOpenAI"
            /\ inv'[p].attempt = inv[p].attempt + 1
            /\ Len(inv'[p].genLog) = Len(inv[p].genLog) + 1
            /\ inv'[p].genLog[Len(inv'[p].genLog)].op = "sleep"
    ]_vars

\* a second service call is under way after the first one came back empty
C34_Witness ==
  \E p \in Procs :
    /\ inv[p].pc = "callOpenAI"
    /\ inv[p].attempt = 2
    /\ inv[p].lastOut.kind = "empty"
    /\ Cardinality(Calls(inv[p].genLog)) = 1

\* ---------------------------------------------------------------------------
\* C35: a file that fileFilter accepted and parseDocument was called on was
\* resolved to one of the decoders; parseDocument never throws "Unsupported
\* file type" for it.
C35_AcceptedFileIsDecoded ==
  filter.pc \in {"parsed", "thrown"} =>
    /\ filter.decoder # NoDecoder
    /\ Decoder(filter.resolved) = filter.decoder
    /\ ~(Len(filter.error) >= 2 /\ filter.error[2] = "Unsupported file type")

\* the declared type, when it is one of the allowed ones, is the resolved one
C35_AllowedTypeIsDecoded ==
  filter.pc \in {"parsed", "thrown"} /\ filter.mimetype \in allowedTypes =>
    /\ filter.resolved = filter.mimetype
    /\ filter.decoder # NoDecoder

\* a file accepted for its extension alone has been handed to parseDocument
C35_AcceptedByExtension ==
  /\ filter.pc \in {"parsed", "thrown"}
  /\ filter.mimetype \notin allowedTypes
  /\ ExtToLowerCase(extname(filter.name)) \in allowedExtensions

\* ---------------------------------------------------------------------------
\* C36: getAccessToken answers from the cache only when connectionSettings
\* holds an entry whose expires_at is strictly later than the clock; in every
\* other case it asks the connector, and the connector's answer replaces the
\* cache.
Started(c) ==
  /\ token.calls[c].pc \in {"idle", "returned", "thrown"}
  /\ token'.calls[c] # token.calls[c]

Unexpired ==
  /\ token.connectionSettings.present
  /\ token.connectionSettings.expires_at >= 1
  /\ token.connectionSettings.expires_at > token.now

ConnectorAnswered(c) ==
  /\ token.calls[c].pc = "fetching"
  /\ token'.calls[c].pc # "fetching"
  /\ token'.calls[c].error # "fetch failed"

C36_InvalidateOnExpiry ==
  [][\A c \in TokenCalls :
       /\ Started(c) =>
            /\ token'.calls[c].via = "cache" => Unexpired
            /\ ~Unexpired => token'.calls[c].pc = "fetching"
       /\ ConnectorAnswered(c) => token'.connectionSettings = token'.calls[c].fetched
    ]_vars

\* C36 as the code has it: without REPL_IDENTITY and WEB_REPL_RENEWAL a call
\* that finds no unexpired entry throws before the connector is asked and the
\* cache stays as it is; with one of them the claim holds, and an unexpired
\* entry is always answered from the cache.
C36_InvalidateOnExpiryWithIdentity ==
  [][\A c \in TokenCalls :
       /\ Started(c) =>
            IF Unexpired
              THEN /\ token'.calls[c].pc = "returned"
                   /\ token'.calls[c].via = "cache"
                   /\ token'.connectionSettings = token.connectionSettings
            ELSE IF token.identity
              THEN /\ token'.calls[c].pc = "fetching"
                   /\ token'.calls[c].via = "none"
            ELSE /\ token'.calls[c].pc = "thrown"
                 /\ token'.calls[c].error = "X_REPLIT_TOKEN not found for repl/depl"
                 /\ token'.connectionSettings = token.connectionSettings
       /\ ConnectorAnswered(c) => token'.connectionSettings = token'.calls[c].fetched
    ]_vars

\* an entry has been served from the cache, has expired since, and a call is
\* asking the connector again
C36_Witness ==
  \E c, d \in TokenCalls :
    /\ token.calls[c].pc = "fetching"
    /\ token.calls[d].via = "cache"
    /\ token.connectionSettings.present
    /\ token.connectionSettings.expires_at >= 1
    /\ token.connectionSettings.expires_at <= token.now

\* ---------------------------------------------------------------------------
\* C37: a call answered from the cache returns the token that the refresh
\* which filled the cache returned, wherever the connector put the token; and
\* a refresh that throws "Google Calendar not connected" leaves no entry that
\* a call would be answered from.
C37_HitReturnsRefreshedToken ==
  [][\A c \in TokenCalls :
       /\ Started(c) /\ token'.calls[c].via = "cache" =>
            /\ RefreshedToken(token.connectionSettings) # NoToken
            /\ token'.calls[c].result = RefreshedToken(token.connectionSettings)
       /\ /\ token.calls[c].pc = "fetching"
          /\ token'.calls[c].error = "Google Calendar not connected"
          => ~CacheHit(token'.connectionSettings, token'.now)
    ]_vars

\* the first half alone: a hit returns what the refresh returned
C37_HitEqualsRefresh ==
  [][\A c \in TokenCalls :
       Started(c) /\ token'.calls[c].via = "cache"
                  /\ RefreshedToken(token.connectionSettings) # NoToken =>
         token'.calls[c].result = RefreshedToken(token.connectionSettings)
    ]_vars

\* the second half alone
C37_FailedRefreshLeavesNoHit ==
  [][\A c \in TokenCalls :
       /\ token.calls[c].pc = "fetching"
       /\ token'.calls[c].error = "Google Calendar not connected"
       => ~CacheHit(token'.connectionSettings, token'.now)
    ]_vars

\* ---------------------------------------------------------------------------
\* C38: a handler that created a job row and has finished has called
\* processJob for that row, in the upload endpoint and in the calendar
\* endpoint, whatever rejected on the way.
UploadJobIsTriggered ==
  \A s \in Reqs :
    req[s].pc = "done" /\ req[s].jobId # NullId =>
      /\ req[s].triggered
      /\ inv[s].pc # "idle" /\ inv[s].jobId = req[s].jobId

CalendarJobIsTriggered ==
  \A c \in CalSlots :
    cal[c].pc = "done" /\ cal[c].jobId # NullId =>
      /\ cal[c].triggered
      /\ inv[CalProc(c)].pc # "idle" /\ inv[CalProc(c)].jobId = cal[c].jobId

C38_CreatedJobIsTriggered == UploadJobIsTriggered /\ CalendarJobIsTriggered

\* the upload endpoint alone
C38_UploadEndpoint == UploadJobIsTriggered

\* ---------------------------------------------------------------------------
\* C39: when every handler for the event has answered, every job of the event
\* has ended and every callback has run to its end without a rejection, the
\* record of the event carries the resultBriefId of the job created last for
\* it if that job completed, and no briefId if that job failed -- also when
\* the last job was forced while an earlier one was still running.
EventJobs == { cal[c].jobId : c \in CalSlots } \ {NullId}

LatestJob == CHOOSE j \in EventJobs : \A k \in EventJobs : k <= j

CallbacksRan ==
  \A c \in CalSlots :
    /\ cal[c].pc \in {"idle", "done"}
    /\ cal[c].then \in {"none", "done"}
    /\ cal[c].jobId # NullId => Terminal(jobs[cal[c].jobId].status)

\* the event has one record, and a request that came after the record was
\* stored asked with `force`
ForcedOverOneRecord ==
  /\ Cardinality(getCalendarEvent("primary", "e1")) = 1
  /\ \A c \in CalSlots :
       cal[c].jobId # NullId /\ cal[c].existing # NullId => cal[c].force

RecordCarries(j) ==
  \A r \in getCalendarEvent("primary", "e1") \ {NullId} :
    calendarEvents[r].briefId =
      IF jobs[j].status = "completed" THEN jobs[j].resultBriefId ELSE NullId

C39_LatestJobOwnsBrief ==
  CallbacksRan /\ EventJobs # {} /\ ForcedOverOneRecord => RecordCarries(LatestJob)

\* one request alone: the record carries the brief of its job
C39_SingleRequest ==
  CallbacksRan /\ Cardinality(EventJobs) = 1 => RecordCarries(LatestJob)

\* both jobs completed: the record still has to carry the later job's brief
C39_BothCompleted ==
  /\ CallbacksRan /\ EventJobs # {} /\ ForcedOverOneRecord
  /\ \A j \in EventJobs : jobs[j].status = "completed"
  => RecordCarries(LatestJob)

\* ---------------------------------------------------------------------------
\* C40: when the mounted page receives a status response that shows the job
\* completed or failed, polling is over: isPolling is false and no job id is
\* left for the interval to ask about -- with or without a brief in the
\* response.
TerminalAnswer(id) ==
  /\ home.mounted /\ home'.mounted
  /\ home'.polls[id] < home.polls[id]
  /\ home'.last.op = "poll" /\ home'.last.id = id
  /\ home'.last.status \in {"completed", "failed"}

C40_PollerStopsWhenFailed ==
  [][\A id \in JobIds :
       TerminalAnswer(id) /\ home'.last.status = "failed" =>
         /\ ~home'.isPolling
         /\ home'.jobId = NullId
         /\ home'.storedJobId = NullId
    ]_vars

====
